---- MODULE Spec2Model ----
(***************************************************************************)
(* Model of gitters: the revision resolver (src/src/revisions.rs) over    *)
(* the on-disk repository it reads (.git/HEAD, the ref files, the loose    *)
(* object directories .git/objects/<2 hex>/), the object header decoder    *)
(* (src/src/objects.rs), the commit decoder (src/src/commits.rs), the      *)
(* index decoder and the enumeration of untracked files                    *)
(* (src/src/index.rs) and the log command (src/src/bin/log.rs).  Each has  *)
(* its own specification over its own variable.                            *)
(*                                                                         *)
(* Text is modelled as a sequence of one-character strings, so that the    *)
(* regular expressions, slicing and trimming of the code are computed      *)
(* character by character.                                                 *)
(*                                                                         *)
(* File system abstraction: a file is either present with text contents   *)
(* or absent.  The resolver maps a failing open and a failing read to the  *)
(* same InvalidRevision, so a file that exists but cannot be read as text  *)
(* is indistinguishable from an absent one and is modelled as absent; in   *)
(* the same way a directory holding a non-Unicode file name is modelled    *)
(* as an absent directory (revisions.rs:90-95).                            *)
(***************************************************************************)
EXTENDS Integers, Sequences, FiniteSets, TLC

\* the resolver: the repository, the spec of the current call of resolve, its
\* result and the locations it read
VARIABLES fs, rev, result, reads, called

\* the other subsystems, one record each: the object header decoder, the
\* commit decoder, the commit date parser, the index decoder, the
\* enumeration of untracked files, the log and rev-parse commands, the
\* configuration parser and the pager
VARIABLES hdr, com, dat, ndx, unt, log, rvp, cfg, pgr

vars == <<fs, rev, result, reads, called, hdr, com, dat, ndx, unt, log, rvp, cfg, pgr>>

(***************************************************************************)
(* Bounds of the model.                                                    *)
(***************************************************************************)
\* largest N of a "~N" suffix in the specs that are tried
MaxN == 2
\* largest number of "^" / "~N" suffixes appended to a base spec
MaxSuffix == 2
\* recursion depth after which resolve is taken to have overflowed the stack
MaxDepth == 12

(***************************************************************************)
(* Characters and text helpers.                                            *)
(***************************************************************************)
Hex == {"0", "1", "2", "3", "4", "5", "6", "7", "8", "9",
        "a", "b", "c", "d", "e", "f"}

Digit == {"0", "1", "2", "3", "4", "5", "6", "7", "8", "9"}

WhiteSpace == {" ", "\t", "\n", "\r"}

Rep(c, n) == [i \in 1..n |-> c]

StartsWith(s, p) == Len(p) <= Len(s) /\ SubSeq(s, 1, Len(p)) = p

EndsWith(s, p) ==
    Len(p) <= Len(s) /\ SubSeq(s, Len(s) - Len(p) + 1, Len(s)) = p

AllIn(s, chars) == \A i \in 1..Len(s) : s[i] \in chars

\* str::trim : drop leading and trailing whitespace
RECURSIVE TrimStart(_)
TrimStart(s) ==
    IF s # <<>> /\ Head(s) \in WhiteSpace THEN TrimStart(Tail(s)) ELSE s

RECURSIVE TrimEnd(_)
TrimEnd(s) ==
    IF s # <<>> /\ s[Len(s)] \in WhiteSpace
    THEN TrimEnd(SubSeq(s, 1, Len(s) - 1))
    ELSE s

Trim(s) == TrimEnd(TrimStart(s))

DigitValue(c) ==
    CASE c = "0" -> 0 [] c = "1" -> 1 [] c = "2" -> 2 [] c = "3" -> 3
      [] c = "4" -> 4 [] c = "5" -> 5 [] c = "6" -> 6 [] c = "7" -> 7
      [] c = "8" -> 8 [] c = "9" -> 9

DigitChar(n) ==
    CASE n = 0 -> "0" [] n = 1 -> "1" [] n = 2 -> "2" [] n = 3 -> "3"
      [] n = 4 -> "4" [] n = 5 -> "5" [] n = 6 -> "6" [] n = 7 -> "7"
      [] n = 8 -> "8" [] n = 9 -> "9"

U64Max == <<"1","8","4","4","6","7","4","4","0","7",
            "3","7","0","9","5","5","1","6","1","5">>

RECURSIVE StripZeros(_)
StripZeros(s) ==
    IF Len(s) > 1 /\ Head(s) = "0" THEN StripZeros(Tail(s)) ELSE s

\* lexicographic s > t for digit strings of the same length
RECURSIVE DigitsGreater(_, _)
DigitsGreater(s, t) ==
    IF s = <<>> THEN FALSE
    ELSE IF DigitValue(Head(s)) # DigitValue(Head(t))
         THEN DigitValue(Head(s)) > DigitValue(Head(t))
         ELSE DigitsGreater(Tail(s), Tail(t))

RECURSIVE DecimalValue(_)
DecimalValue(s) ==
    IF s = <<>> THEN 0
    ELSE 10 * DecimalValue(SubSeq(s, 1, Len(s) - 1)) + DigitValue(s[Len(s)])

\* str::parse::<u64> of a string of decimal digits: -1 stands for the
\* overflow error, otherwise the value
ParseU64(s) ==
    LET t == StripZeros(s)
    IN  IF Len(t) > Len(U64Max) \/ (Len(t) = Len(U64Max) /\ DigitsGreater(t, U64Max))
        THEN -1
        ELSE DecimalValue(t)

(***************************************************************************)
(* The regular expressions of resolve.                                     *)
(***************************************************************************)
Sha1Len == 40

MinPartialLen == 4

\* FULL_SHA1_REGEX  ^[0-9a-f]{40}$
IsFullSha1(s) == Len(s) = Sha1Len /\ AllIn(s, Hex)

IsPartialSha1_From3(s) == Len(s) >= 3 /\ Len(s) < Sha1Len /\ AllIn(s, Hex)

\* PARTIAL_SHA1_REGEX  ^[0-9a-f]{4,39}$
IsPartialSha1(s) == Len(s) >= MinPartialLen /\ Len(s) < Sha1Len /\ AllIn(s, Hex)

\* position of the last "~" of s, 0 when there is none
LastTilde(s) ==
    LET idx == {i \in 1..Len(s) : s[i] = "~"}
    IN  IF idx = {} THEN 0 ELSE CHOOSE i \in idx : \A j \in idx : j <= i

\* ANCESTOR_REGEX  ^(?P<child>.+)~(?P<num>\d+)$ : the digits after the last
\* "~" are num, the non-empty text before it (no newline, "." does not match
\* one) is child
IsAncestor(s) ==
    LET k == LastTilde(s)
    IN  /\ k > 1
        /\ k < Len(s)
        /\ AllIn(SubSeq(s, k + 1, Len(s)), Digit)
        /\ \A i \in 1..(k - 1) : s[i] # "\n"

AncestorChild(s) == SubSeq(s, 1, LastTilde(s) - 1)

AncestorNum(s) == SubSeq(s, LastTilde(s) + 1, Len(s))

RefPrefix == <<"r", "e", "f", ":", " ">>

\* text after "ref: "
AfterRefPrefix(c) == SubSeq(c, Len(RefPrefix) + 1, Len(c))

\* index of the first newline of s, Len(s)+1 when there is none
FirstNewline(s) ==
    LET idx == {i \in 1..Len(s) : s[i] = "\n"}
    IN  IF idx = {} THEN Len(s) + 1 ELSE CHOOSE i \in idx : \A j \in idx : i <= j

\* SYMBOLIC_REF_REGEX  ^ref: (?P<ref>.+)\s*$ : "ref: ", then a non-empty run
\* without newline, then only whitespace up to the end of the text
IsSymbolicRef(c) ==
    /\ StartsWith(c, RefPrefix)
    /\ LET r == AfterRefPrefix(c)
           j == FirstNewline(r)
       IN  /\ j > 1
           /\ AllIn(SubSeq(r, j, Len(r)), WhiteSpace)

\* the capture "ref": the greedy ".+" takes everything up to the first newline
SymbolicRefTarget(c) ==
    LET r == AfterRefPrefix(c)
    IN  SubSeq(r, 1, FirstNewline(r) - 1)

(***************************************************************************)
(* Results.                                                                *)
(***************************************************************************)
\* Option<objects::Name> : <<>> is None, <<n>> is Some(n)
None == <<>>

Some(n) == <<n>>

\* outcome of resolve: Ok(Name), Err(InvalidRevision), or the process ending
\* without a value ("Panic": a failed assert! or slice index; "Overflow":
\* recursion deeper than MaxDepth).  reads is the set of file system
\* locations that were opened on the way.
Outcome(t, n, r) == [tag |-> t, name |-> n, reads |-> r]

Ok(n, r) == Outcome("Ok", n, r)

InvalidRevision(r) == Outcome("InvalidRevision", <<>>, r)

Panic(r) == Outcome("Panic", <<>>, r)

Overflow(r) == Outcome("Overflow", <<>>, r)

FileRead(path) == <<"file", path>>

DirRead(dir) == <<"dir", dir>>

ObjectRead(name) == <<"object", name>>

(***************************************************************************)
(* Commit decoding (src/src/commits.rs).  A commit payload is the sequence *)
(* of its header lines up to the blank line; a line is [kind, rev] with    *)
(* kind "tree", "parent", "author", "committer" (these two with the user   *)
(* of the line), or "other" for a line no regular expression of            *)
(* parse_commit matches.                                                   *)
(***************************************************************************)
\* CommitUser: name, seconds since the epoch (decimal digits) and offset of
\* the time zone in seconds
CommitUser(n, utc, offset) == [name |-> n, date |-> [utc |-> utc, offset |-> offset]]

NewBuilder(name) ==
    [name |-> name, tree |-> None, parent |-> None,
     author |-> None, committer |-> None, message |-> None]

\* one iteration of the header loop on a matching line; a later parent
\* line replaces the parent set by an earlier one
BuilderStep(b, line) ==
    CASE line.kind = "tree" -> [b EXCEPT !.tree = Some(line.rev)]
      [] line.kind = "parent" -> [b EXCEPT !.parent = Some(line.rev)]
      [] line.kind = "author" -> [b EXCEPT !.author = Some(line.user)]
      [] line.kind = "committer" -> [b EXCEPT !.committer = Some(line.user)]

CommitErr(what) == [tag |-> "Err", error |-> what]

Build_WithoutAuthor(b) ==
    IF b.tree = None THEN CommitErr("MissingField tree")
    ELSE IF b.committer = None THEN CommitErr("MissingField committer")
    ELSE IF b.message = None THEN CommitErr("MissingField message")
    ELSE [tag |-> "Commit", name |-> b.name, tree |-> b.tree[1],
          parent |-> b.parent,
          author |-> IF b.author = None THEN b.committer[1] ELSE b.author[1],
          committer |-> b.committer[1], message |-> b.message[1]]

\* CommitBuilder::build
Build(b) ==
    IF b.tree = None THEN CommitErr("MissingField tree")
    ELSE IF b.committer = None THEN CommitErr("MissingField committer")
    ELSE IF b.author = None THEN CommitErr("MissingField author")
    ELSE IF b.message = None THEN CommitErr("MissingField message")
    ELSE [tag |-> "Commit", name |-> b.name, tree |-> b.tree[1],
          parent |-> b.parent, author |-> b.author[1],
          committer |-> b.committer[1], message |-> b.message[1]]

RECURSIVE ParseLines(_, _)
ParseLines(b, lines) ==
    IF lines = <<>> THEN Build([b EXCEPT !.message = Some(<<>>)])
    ELSE IF Head(lines).kind = "other" THEN CommitErr("InvalidCommit")
    ELSE ParseLines(BuilderStep(b, Head(lines)), Tail(lines))

\* commits::parse_commit
parse_commit(lines, name) == ParseLines(NewBuilder(name), lines)

(***************************************************************************)
(* Object store (src/src/objects.rs).  fs.objects maps a directory name    *)
(* under .git/objects to its files, a file name to the decompressed        *)
(* object: [otype, lines].                                                 *)
(***************************************************************************)
\* get_object_path: sha1.split_at(2) panics on a name shorter than 2 bytes
PathSplits(name) == Len(name) >= 2

ObjectDir(name) == SubSeq(name, 1, 2)

ObjectFile(name) == SubSeq(name, 3, Len(name))

HasObject(f, name) ==
    /\ PathSplits(name)
    /\ ObjectDir(name) \in DOMAIN f.objects
    /\ ObjectFile(name) \in DOMAIN f.objects[ObjectDir(name)]

StoredObject(f, name) == f.objects[ObjectDir(name)][ObjectFile(name)]

\* objects::read_object: "Panic", "Err", "Blob", "Tree" or the Commit record
read_object(f, name) ==
    IF ~PathSplits(name) THEN [tag |-> "Panic"]
    ELSE IF ~HasObject(f, name) THEN [tag |-> "Err", error |-> "IOError"]
    ELSE LET obj == StoredObject(f, name)
         IN  CASE obj.otype = "commit" -> parse_commit(obj.lines, name)
               [] obj.otype = "blob" -> [tag |-> "Blob"]
               [] obj.otype = "tree" -> [tag |-> "Tree"]
               [] OTHER -> [tag |-> "Err", error |-> "InvalidFile"]

(***************************************************************************)
(* Revision resolution (src/src/revisions.rs).  fs.files maps a path       *)
(* relative to .git/ to the text of the file.                              *)
(***************************************************************************)
HeadSpec == <<"H", "E", "A", "D">>

HeadPath == <<"H", "E", "A", "D">>

RefsHeads == <<"r", "e", "f", "s", "/", "h", "e", "a", "d", "s", "/">>

Caret == <<"^">>

\* rev == "HEAD": .git/HEAD must be "ref: <ref>", the answer is the trimmed
\* text of .git/<ref>
resolve_head(f) ==
    IF HeadPath \notin DOMAIN f.files
    THEN InvalidRevision({FileRead(HeadPath)})
    ELSE LET head_contents == f.files[HeadPath]
         IN  IF ~IsSymbolicRef(head_contents)
             THEN InvalidRevision({FileRead(HeadPath)})
             ELSE LET ref_filename == SymbolicRefTarget(head_contents)
                      rd == {FileRead(HeadPath), FileRead(ref_filename)}
                  IN  IF ref_filename \notin DOMAIN f.files
                      THEN InvalidRevision(rd)
                      ELSE Ok(Trim(f.files[ref_filename]), rd)

resolve_full_sha1_Checked(f, r) ==
    IF HasObject(f, r) THEN Ok(r, {ObjectRead(r)})
    ELSE InvalidRevision({ObjectRead(r)})

\* FULL_SHA1_REGEX matched: the text itself
resolve_full_sha1(f, r) == Ok(r, {})

matching_files_Exact(f, prefix, suffix) ==
    {filename \in DOMAIN f.objects[prefix] : filename = suffix}

\* the file names of .git/objects/<prefix>/ that start with suffix
matching_files(f, prefix, suffix) ==
    {filename \in DOMAIN f.objects[prefix] : StartsWith(filename, suffix)}

\* an abbreviation that matches no object is tried as a branch name
resolve_partial_sha1_OrBranch(f, r) ==
    LET prefix == SubSeq(r, 1, 2)
        suffix == SubSeq(r, 3, Len(r))
        ref_filename == RefsHeads \o r
        rd == {DirRead(prefix)}
        matching == IF prefix \in DOMAIN f.objects
                    THEN matching_files(f, prefix, suffix) ELSE {}
    IN  IF matching = {}
        THEN IF ref_filename \notin DOMAIN f.files
             THEN InvalidRevision(rd \cup {FileRead(ref_filename)})
             ELSE Ok(Trim(f.files[ref_filename]), rd \cup {FileRead(ref_filename)})
        ELSE IF Cardinality(matching) # 1 THEN Panic(rd)
        ELSE Ok(prefix \o (CHOOSE filename \in matching : TRUE), rd)

\* PARTIAL_SHA1_REGEX matched
resolve_partial_sha1(f, r) ==
    LET prefix == SubSeq(r, 1, 2)
        suffix == SubSeq(r, 3, Len(r))
        rd == {DirRead(prefix)}
    IN  IF prefix \notin DOMAIN f.objects THEN InvalidRevision(rd)
        ELSE LET matching == matching_files(f, prefix, suffix)
             IN  IF matching = {} THEN InvalidRevision(rd)
                 ELSE IF Cardinality(matching) # 1 THEN Panic(rd)
                 ELSE Ok(prefix \o (CHOOSE filename \in matching : TRUE), rd)

resolve_branch_Untrimmed(f, r) ==
    LET ref_filename == RefsHeads \o r
        rd == {FileRead(ref_filename)}
    IN  IF ref_filename \notin DOMAIN f.files THEN InvalidRevision(rd)
        ELSE Ok(f.files[ref_filename], rd)

\* fall-through: the trimmed text of .git/refs/heads/<rev>
resolve_branch(f, r) ==
    LET ref_filename == RefsHeads \o r
        rd == {FileRead(ref_filename)}
    IN  IF ref_filename \notin DOMAIN f.files THEN InvalidRevision(rd)
        ELSE Ok(Trim(f.files[ref_filename]), rd)

\* the match of parent_of_commit on the object that was read
parent_of_object(object, resolved) ==
    IF object.tag = "Panic" THEN Panic({})
    ELSE IF object.tag = "Commit" /\ object.parent # None
         THEN Ok(object.parent[1], {})
    ELSE InvalidRevision({})

RECURSIVE resolve(_, _, _)
RECURSIVE parent_of_commit(_, _, _)
RECURSIVE walk_parents(_, _, _, _, _)

parent_of_commit(f, r, fuel) ==
    LET resolved == resolve(f, r, fuel)
    IN  IF resolved.tag # "Ok" THEN resolved
        ELSE LET object == read_object(f, resolved.name)
                 out == parent_of_object(object, resolved.name)
             IN  Outcome(out.tag, out.name,
                         resolved.reads \cup {ObjectRead(resolved.name)})

\* for _ in 0..num { parent = parent_of_commit(&name) }
walk_parents(f, name, num, fuel, rd) ==
    IF num = 0 THEN Ok(name, rd)
    ELSE LET parent == parent_of_commit(f, name, fuel)
         IN  IF parent.tag # "Ok"
             THEN Outcome(parent.tag, <<>>, rd \cup parent.reads)
             ELSE walk_parents(f, parent.name, num - 1, fuel, rd \cup parent.reads)

resolve(f, r, fuel) ==
    IF fuel = 0 THEN Overflow({})
    ELSE IF r = HeadSpec THEN resolve_head(f)
    ELSE IF EndsWith(r, Caret)
         THEN parent_of_commit(f, SubSeq(r, 1, Len(r) - 1), fuel - 1)
    ELSE IF IsFullSha1(r) THEN resolve_full_sha1(f, r)
    ELSE IF IsPartialSha1(r) THEN resolve_partial_sha1(f, r)
    ELSE IF IsAncestor(r)
         THEN LET num == ParseU64(AncestorNum(r))
              IN  IF num < 0 THEN InvalidRevision({})
                  ELSE LET child == resolve(f, AncestorChild(r), fuel - 1)
                       IN  IF child.tag # "Ok" THEN child
                           ELSE walk_parents(f, child.name, num, fuel - 1,
                                             child.reads)
    ELSE resolve_branch(f, r)

(***************************************************************************)
(* The repositories and revision specs that are tried.                     *)
(***************************************************************************)
Newline == <<"\n">>

\* commits K3 -> K2 -> K1 -> K0 (root), merge commit Mg with two parent
\* lines, a blob, a tree, two objects sharing the prefix "abcd", an object
\* name with no object, and a stray short file name in objects/ee/
K0 == <<"3", "e", "6", "a">> \o Rep("0", 36)

K1 == <<"4", "1", "c", "f">> \o Rep("1", 36)

K2 == <<"4", "d", "d", "b">> \o Rep("2", 36)

K3 == <<"d", "7", "6", "9">> \o Rep("3", 36)

Mg == <<"5", "a", "5", "a">> \o Rep("4", 36)

Bl == <<"b", "1", "0", "b">> \o Rep("5", 36)

Tr == <<"7", "e", "e", "0">> \o Rep("6", 36)

A1 == <<"a", "b", "c", "d">> \o Rep("1", 36)

A2 == <<"a", "b", "c", "d">> \o Rep("2", 36)

Bad == <<"b", "a", "d", "0">> \o Rep("7", 36)

Absent == <<"9", "9", "9", "9">> \o Rep("8", 36)

Stray == <<"e", "e", "e", "e">>

TreeLine == [kind |-> "tree", rev |-> Tr]

ParentLine(n) == [kind |-> "parent", rev |-> n]

AuthorLine == [kind |-> "author", rev |-> <<>>, user |-> CommitUser(<<"A">>, <<"5">>, 0)]

CommitterLine ==
    [kind |-> "committer", rev |-> <<>>, user |-> CommitUser(<<"C">>, <<"7">>, 3600)]

\* a well-formed commit payload with one parent line per element of parents
CommitObject(parents) ==
    [otype |-> "commit",
     lines |-> <<TreeLine>> \o [i \in 1..Len(parents) |-> ParentLine(parents[i])]
               \o <<AuthorLine, CommitterLine>>]

BlobObject == [otype |-> "blob", lines |-> <<>>]

TreeObject == [otype |-> "tree", lines |-> <<>>]

\* a commit payload without author line: parse_commit fails on it
BadCommitObject == [otype |-> "commit", lines |-> <<TreeLine, CommitterLine>>]

Entry(n, o) == [name |-> n, obj |-> o]

ChainEntries ==
    {Entry(K0, CommitObject(<<>>)), Entry(K1, CommitObject(<<K0>>)),
     Entry(K2, CommitObject(<<K1>>)), Entry(K3, CommitObject(<<K2>>))}

OtherEntries ==
    {Entry(Mg, CommitObject(<<K3, K1>>)), Entry(Bl, BlobObject),
     Entry(Tr, TreeObject), Entry(A1, CommitObject(<<K0>>)),
     Entry(A2, BlobObject), Entry(Bad, BadCommitObject),
     Entry(Stray, BlobObject)}

\* the directory tree .git/objects/<dir>/<file> holding the entries
MkStore(entries) ==
    [d \in {ObjectDir(e.name) : e \in entries} |->
        [fl \in {ObjectFile(e.name) :
                    e \in {e2 \in entries : ObjectDir(e2.name) = d}} |->
            (CHOOSE e \in entries : e.name = d \o fl).obj]]

StorePool == {MkStore({}), MkStore(ChainEntries \cup OtherEntries)}

NoFiles == [x \in {} |-> <<>>]

Main == <<"m", "a", "i", "n">>

Topic == <<"t", "o", "p", "i", "c">>

Junk == <<"j", "u", "n", "k">>

Loop == <<"l", "o", "o", "p">>

Cafe == <<"c", "a", "f", "e">>

Abc == <<"a", "b", "c">>

Gone == <<"g", "o", "n", "e">>

Empty == <<"e", "m", "p", "t", "y">>

SymbolicHead(branch) == RefPrefix \o RefsHeads \o branch \o Newline

\* .git/HEAD: absent, symbolic (to an existing or a missing branch), or
\* detached
HeadPool ==
    {NoFiles,
     HeadPath :> SymbolicHead(Main),
     HeadPath :> SymbolicHead(Gone),
     HeadPath :> (K3 \o Newline)}

Branch(name, text) == (RefsHeads \o name) :> text

\* .git/refs/heads/: empty, or several branches, some of which hold text that
\* is not an object name
RefsPool ==
    {NoFiles,
     Branch(Main, K3 \o Newline) @@ Branch(Topic, <<" ">> \o Mg \o <<" ", "\n">>)
        @@ Branch(Junk, Main \o Newline) @@ Branch(Loop, Loop \o <<"~", "1">> \o Newline)
        @@ Branch(Cafe, K1 \o Newline) @@ Branch(Abc, K2 \o Newline)
        @@ Branch(Empty, <<>>)}

FsPool ==
    {[files |-> h @@ r, objects |-> o] :
        h \in HeadPool, r \in RefsPool, o \in StorePool}

BaseSpecs ==
    {HeadSpec, K3, Bl, Bad, Absent,
     SubSeq(K3, 1, 4), SubSeq(K3, 1, 3), SubSeq(K2, 1, 39),
     <<"a", "b", "c", "d">>, <<"a", "b", "c", "d", "1">>, <<"a", "b", "c">>, <<"e", "e", "e", "e">>, <<"4", "d", "d", "0">>, <<"c", "a", "f", "e">>,
     Main, Topic, Junk, Loop, Gone, Empty, <<>>}

TooBig == Rep("9", 21)

\* the suffixes "^" and "~0" .. "~MaxN"
Suffixes == {Caret} \cup {<<"~", DigitChar(n)>> : n \in 0..MaxN}

RECURSIVE SuffixSeqs(_)
SuffixSeqs(k) ==
    IF k = 0 THEN {<<>>}
    ELSE LET shorter == SuffixSeqs(k - 1)
         IN  shorter \cup {t \o x : t \in shorter, x \in Suffixes}

\* a base followed by up to MaxSuffix suffixes, or by a "~N" whose N
\* overflows u64
SpecPool ==
    {b \o t : b \in BaseSpecs, t \in SuffixSeqs(MaxSuffix)}
        \cup {b \o <<"~">> \o TooBig : b \in BaseSpecs}

(***************************************************************************)
(* The state machine: the repository is fixed at the start, and each step  *)
(* is one call of resolve on it.                                           *)
(***************************************************************************)
NoResult == [tag |-> "None", name |-> <<>>]

\* a subsystem that takes no part in the behaviours of a specification
Idle == [pc |-> "idle"]

Init ==
    /\ fs \in FsPool
    /\ rev = <<>>
    /\ result = NoResult
    /\ reads = {}
    /\ called = FALSE
    /\ hdr = Idle /\ com = Idle /\ dat = Idle /\ ndx = Idle /\ unt = Idle /\ log = Idle
    /\ rvp = Idle /\ cfg = Idle /\ pgr = Idle

\* a caller (rev-parse.rs:29, log.rs:45, cat-file.rs:101) invokes
\* revisions::resolve(r); the call runs to its end in one step
Resolve(r) ==
    LET out == resolve(fs, r, MaxDepth)
    IN  /\ ~called
        /\ rev' = r
        /\ result' = [tag |-> out.tag, name |-> out.name]
        /\ reads' = out.reads
        /\ called' = TRUE
        /\ UNCHANGED <<fs, hdr, com, dat, ndx, unt, log, rvp, cfg, pgr>>

\* the caller has consumed the result and is ready for the next call
Return ==
    /\ called
    /\ rev' = <<>>
    /\ result' = NoResult
    /\ reads' = {}
    /\ called' = FALSE
    /\ UNCHANGED <<fs, hdr, com, dat, ndx, unt, log, rvp, cfg, pgr>>

Next ==
    \/ \E r \in SpecPool : Resolve(r)
    \/ Return

Spec == Init /\ [][Next]_vars

\* the resolver at rest, for the specifications of the other subsystems
ResolverIdle ==
    /\ fs = [files |-> NoFiles, objects |-> MkStore({})]
    /\ rev = <<>>
    /\ result = NoResult
    /\ reads = {}
    /\ called = FALSE

resolverVars == <<fs, rev, result, reads, called>>

(***************************************************************************)
(* Properties of resolve.                                                  *)
(***************************************************************************)
Returned(o) == [tag |-> o.tag, name |-> o.name]

OkName(n) == [tag |-> "Ok", name |-> n]

Invalid == [tag |-> "InvalidRevision", name |-> <<>>]

\* t is s without its leading and trailing whitespace
IsTrimOf(t, s) ==
    \E i \in 0..Len(s) : \E j \in i..Len(s) :
        /\ AllIn(SubSeq(s, 1, i), WhiteSpace)
        /\ AllIn(SubSeq(s, j + 1, Len(s)), WhiteSpace)
        /\ t = SubSeq(s, i + 1, j)
        /\ t # <<>> => (t[1] \notin WhiteSpace /\ t[Len(t)] \notin WhiteSpace)

\* C1: a spec of exactly 40 characters in [0-9a-f] resolves to the
\* identifier with that very text, whether or not such an object exists,
\* and nothing is read from the file system on the way.
C1_FullSha1ResolvesToItself ==
    (called /\ Len(rev) = 40 /\ AllIn(rev, Hex))
        => (result = OkName(rev) /\ reads = {})

\* a 40-hex spec naming no object has been resolved
C1_Witness ==
    /\ called
    /\ Len(rev) = 40 /\ AllIn(rev, Hex)
    /\ ~HasObject(fs, rev)
    /\ fs.objects # MkStore({})
    /\ result.tag = "Ok"

\* C2: every identifier a successful resolve returns is exactly 40
\* characters long, each in [0-9a-f].
C2_ResolvedNameIs40Hex ==
    (called /\ result.tag = "Ok")
        => (Len(result.name) = 40 /\ AllIn(result.name, Hex))

\* the parent recorded in the commit named x: Ok(parent), or InvalidRevision
\* when x names no commit or the commit has no parent
ParentRecorded(f, x) ==
    LET object == read_object(f, x)
    IN  IF object.tag = "Commit" /\ object.parent # None
        THEN OkName(object.parent[1])
        ELSE Invalid

\* C3: resolve(s ^) is the parent recorded in the commit named by
\* resolve(s) when resolve(s) succeeds and that commit has a parent, and is
\* InvalidRevision in every other case.
C3_CaretIsRecordedParent ==
    (called /\ EndsWith(rev, Caret))
        => LET child == resolve(fs, SubSeq(rev, 1, Len(rev) - 1), MaxDepth)
           IN  IF child.tag = "Ok"
               THEN result = ParentRecorded(fs, child.name)
               ELSE result = Invalid

\* the single-step parent operation applied n times to the identifier x
RECURSIVE IterateParent(_, _, _)
IterateParent(f, n, x) ==
    IF n = 0 THEN OkName(x)
    ELSE LET step == ParentRecorded(f, x)
         IN  IF step.tag = "Ok" THEN IterateParent(f, n - 1, step.name)
             ELSE Invalid

\* C4: for a resolvable s, resolve(s ~N) is N applications of the parent
\* step starting from resolve(s) (InvalidRevision as soon as a step finds
\* no parent), and equals resolve of s followed by N "^".
C4_TildeIteratesParent ==
    (called /\ IsAncestor(rev) /\ ParseU64(AncestorNum(rev)) >= 0)
        => LET s == AncestorChild(rev)
               n == ParseU64(AncestorNum(rev))
               child == resolve(fs, s, MaxDepth)
           IN  child.tag = "Ok"
                 => /\ result = IterateParent(fs, n, child.name)
                    /\ result = Returned(resolve(fs, s \o Rep("^", n), MaxDepth + n))

\* the names of the files in .git/objects/<d>/, none when there is no such
\* directory
FilesIn(f, d) == IF d \in DOMAIN f.objects THEN DOMAIN f.objects[d] ELSE {}

\* C5: for a hex spec of 4 to 39 characters, D its first two characters and
\* P the rest: when exactly one file name in .git/objects/D/ starts with P
\* the result is D followed by that file name, which has the spec as a
\* prefix; when no file name starts with P, or there is no such directory,
\* the result is InvalidRevision.
C5_AbbreviatedSha1 ==
    (called /\ Len(rev) \in 4..39 /\ AllIn(rev, Hex))
        => LET D == SubSeq(rev, 1, 2)
               P == SubSeq(rev, 3, Len(rev))
               found == {n \in FilesIn(fs, D) : SubSeq(n, 1, Len(P)) = P}
           IN  /\ Cardinality(found) = 1
                    => /\ \E n \in found : result = OkName(D \o n)
                       /\ SubSeq(result.name, 1, Len(rev)) = rev
               /\ found = {} => result = Invalid

\* an abbreviation shorter than the one matching file name has been resolved
\* in a directory that holds other files too
C5_Witness ==
    /\ called
    /\ Len(rev) \in 4..39 /\ AllIn(rev, Hex)
    /\ result.tag = "Ok"
    /\ Len(result.name) > Len(rev)
    /\ Cardinality(FilesIn(fs, SubSeq(rev, 1, 2))) > 1

\* C6: a resolution that does not produce an identifier ends by returning
\* InvalidRevision, in particular when an abbreviated hash matches more than
\* one file name of its object directory.
C6_FailureIsInvalidRevision ==
    (called /\ result.tag # "Ok") => result = Invalid

\* C7: resolve("HEAD") is the trimmed text of .git/<ref> when .git/HEAD is
\* "ref: <ref>", and is the identifier in .git/HEAD when that file holds a
\* bare 40-hex identifier.
C7_HeadSymbolicOrDetached ==
    (called /\ rev = HeadSpec /\ HeadPath \in DOMAIN fs.files)
        => LET head == fs.files[HeadPath]
           IN  /\ (IsSymbolicRef(head) /\ SymbolicRefTarget(head) \in DOMAIN fs.files)
                    => /\ result.tag = "Ok"
                       /\ IsTrimOf(result.name, fs.files[SymbolicRefTarget(head)])
               /\ (\E id \in {Trim(head)} : Len(id) = 40 /\ AllIn(id, Hex))
                    => result = OkName(Trim(head))

\* C8: a spec that is not HEAD, does not end in "^", is not a hex string of
\* 4 to 40 characters and has no ~N suffix resolves to the trimmed text of
\* .git/refs/heads/<spec> when that file exists and to InvalidRevision when
\* it does not.
C8_BranchName ==
    (/\ called
     /\ rev # HeadSpec
     /\ (rev = <<>> \/ rev[Len(rev)] # "^")
     /\ ~(Len(rev) \in 4..40 /\ AllIn(rev, Hex))
     /\ ~IsAncestor(rev))
        => IF (RefsHeads \o rev) \in DOMAIN fs.files
           THEN /\ result.tag = "Ok"
                /\ IsTrimOf(result.name, fs.files[RefsHeads \o rev])
           ELSE result = Invalid

\* a branch whose file has whitespace on both sides of the name has been
\* resolved
C8_Witness ==
    /\ called
    /\ rev = Topic
    /\ (RefsHeads \o rev) \in DOMAIN fs.files
    /\ result.tag = "Ok"
    /\ Len(result.name) + 1 < Len(fs.files[RefsHeads \o rev])

\* C9: when resolve(s) succeeds with identifier x, resolve of the text of x
\* succeeds and returns x.
C9_ResolveIsIdempotent ==
    (called /\ result.tag = "Ok")
        => Returned(resolve(fs, result.name, MaxDepth)) = OkName(result.name)

\* C10 as stated: a hex string of length 4 is looked up in
\* .git/objects/<first 2 chars>/, and a hex string of length 3 resolves to
\* InvalidRevision in every repository.
C10_ThreeHexAlwaysInvalid ==
    /\ (called /\ Len(rev) = 4 /\ AllIn(rev, Hex))
            => reads = {DirRead(SubSeq(rev, 1, 2))}
    /\ (called /\ Len(rev) = 3 /\ AllIn(rev, Hex)) => result = Invalid

\* C10 amended: a hex string of length 4 is looked up in
\* .git/objects/<first 2 chars>/; a hex string of length 3 is never looked
\* up there: it is read as the branch .git/refs/heads/<spec>, and resolves
\* to InvalidRevision exactly when that file does not exist.
C10_ThreeHexIsBranchName ==
    /\ (called /\ Len(rev) = 4 /\ AllIn(rev, Hex))
            => reads = {DirRead(SubSeq(rev, 1, 2))}
    /\ (called /\ Len(rev) = 3 /\ AllIn(rev, Hex))
            => /\ reads = {FileRead(RefsHeads \o rev)}
               /\ result = Invalid <=> (RefsHeads \o rev) \notin DOMAIN fs.files
               /\ result.tag = "Ok"
                    => IsTrimOf(result.name, fs.files[RefsHeads \o rev])

\* a three-character hex spec has resolved through a branch of that name
\* while files of .git/objects/<first 2 chars>/ start with its third
\* character
C10_Witness ==
    /\ called
    /\ Len(rev) = 3 /\ AllIn(rev, Hex)
    /\ result.tag = "Ok"
    /\ \E n \in FilesIn(fs, SubSeq(rev, 1, 2)) : n[1] = rev[3]

(***************************************************************************)
(* Object header decoding (src/src/objects.rs).  The decompressed object   *)
(* is a sequence of bytes: a one-character string per ASCII byte, Nul for  *)
(* the byte 0 and BadByte for a byte that is not valid UTF-8.              *)
(***************************************************************************)
\* largest number of payload bytes of the objects that are tried
MaxPayload == 3

Nul == "NUL"

BadByte == "0xff"

\* BufRead::read_until: the bytes up to and including the first delimiter,
\* or all of them when there is none
FirstAt(stream, d) ==
    LET at == {i \in 1..Len(stream) : stream[i] = d}
    IN  IF at = {} THEN 0 ELSE CHOOSE i \in at : \A j \in at : i <= j

Consumed(stream, d) ==
    IF FirstAt(stream, d) = 0 THEN stream
    ELSE SubSeq(stream, 1, FirstAt(stream, d))

Remaining(stream, d) ==
    SubSeq(stream, Len(Consumed(stream, d)) + 1, Len(stream))

\* Vec::pop after read_until: the last byte goes, whatever it is
Pop(buffer) ==
    IF buffer = <<>> THEN <<>> ELSE SubSeq(buffer, 1, Len(buffer) - 1)

\* str::from_utf8 succeeds
IsUtf8(buffer) == \A i \in 1..Len(buffer) : buffer[i] # BadByte

TypeNames == {<<"b", "l", "o", "b">>, <<"t", "r", "e", "e">>, <<"c", "o", "m", "m", "i", "t">>}

\* str::parse::<u64>: an optional "+" and at least one digit, no overflow
UnsignedDigits(str) == IF str # <<>> /\ str[1] = "+" THEN Tail(str) ELSE str

U64Overflows(digits) ==
    LET t == StripZeros(digits)
    IN  \/ Len(t) > Len(U64Max)
        \/ Len(t) = Len(U64Max) /\ DigitsGreater(t, U64Max)

ParsesAsU64(str) ==
    LET digits == UnsignedDigits(str)
    IN  digits # <<>> /\ AllIn(digits, Digit) /\ ~U64Overflows(digits)

\* the u64 that was parsed, as its decimal digits without leading zeros
U64Of(str) == StripZeros(UnsignedDigits(str))

HeaderErr(what) ==
    [tag |-> "Err", error |-> what, object_type |-> <<>>, content_length |-> <<>>]

HeaderOk(t, n) ==
    [tag |-> "Ok", error |-> "", object_type |-> t, content_length |-> n]

\* read_type: the text before the space must be a type name
read_type(stream) ==
    LET type_str == Pop(Consumed(stream, " "))
    IN  IF ~IsUtf8(type_str) THEN HeaderErr("InvalidFile utf8")
        ELSE IF type_str \notin TypeNames THEN HeaderErr("InvalidFile invalid type")
        ELSE HeaderOk(type_str, <<>>)

\* read_size: the text before the NUL must parse as u64
read_size(stream) ==
    LET size_str == Pop(Consumed(stream, Nul))
    IN  IF ~IsUtf8(size_str) THEN HeaderErr("InvalidFile utf8")
        ELSE IF ~ParsesAsU64(size_str) THEN HeaderErr("InvalidFile size")
        ELSE HeaderOk(<<>>, U64Of(size_str))

NoHeader == [tag |-> "None", error |-> "", object_type |-> <<>>, content_length |-> <<>>]

TypeTexts == TypeNames \cup {<<"t", "a", "g">>, <<"b", "l", "o", "b", "s">>, <<>>, <<BadByte>>}

SizeTexts ==
    {<<"0">>, <<"3">>, <<"1", "2">>, <<"0", "0", "7">>, <<"+", "3">>, <<"-", "1">>, <<"x">>, <<>>, U64Max,
     <<"1", "8", "4", "4", "6", "7", "4", "4", "0", "7", "3", "7", "0", "9", "5", "5", "1", "6", "1", "6">>}

Payloads == {Rep("a", n) : n \in 0..MaxPayload} \cup {<<"1", Nul, "a">>}

\* well-formed and malformed objects: with or without the space, with or
\* without the NUL
StreamPool ==
    {t \o sp \o sz \o nl \o pl :
        t \in TypeTexts, sp \in {<<" ">>, <<>>}, sz \in SizeTexts,
        nl \in {<<Nul>>, <<>>}, pl \in Payloads}

InitHeader ==
    /\ ResolverIdle
    /\ com = Idle /\ dat = Idle /\ ndx = Idle /\ unt = Idle /\ log = Idle
    /\ rvp = Idle /\ cfg = Idle /\ pgr = Idle
    /\ hdr \in {[pc |-> "start", stream |-> st, rest |-> st,
                 object_type |-> <<>>, result |-> NoHeader] : st \in StreamPool}

\* read_header_from_reader, first try!: read_type
ReadType ==
    /\ hdr.pc = "start"
    /\ LET t == read_type(hdr.rest)
       IN  hdr' = IF t.tag = "Ok"
                  THEN [hdr EXCEPT !.pc = "typed",
                                   !.rest = Remaining(hdr.rest, " "),
                                   !.object_type = t.object_type]
                  ELSE [hdr EXCEPT !.pc = "done",
                                   !.rest = Remaining(hdr.rest, " "),
                                   !.result = t]
    /\ UNCHANGED <<resolverVars, com, dat, ndx, unt, log, rvp, cfg, pgr>>

\* read_header_from_reader, second try! and the Header that is returned
ReadSize ==
    /\ hdr.pc = "typed"
    /\ LET sz == read_size(hdr.rest)
       IN  hdr' = [hdr EXCEPT !.pc = "done",
                              !.rest = Remaining(hdr.rest, Nul),
                              !.result = IF sz.tag = "Ok"
                                         THEN HeaderOk(hdr.object_type, sz.content_length)
                                         ELSE sz]
    /\ UNCHANGED <<resolverVars, com, dat, ndx, unt, log, rvp, cfg, pgr>>

NextHeader == ReadType \/ ReadSize

SpecHeader == InitHeader /\ [][NextHeader]_vars

\* the number n written in decimal
IsNumber(digits, n) == Len(digits) <= 9 /\ DecimalValue(digits) = n

SizeField(stream) ==
    LET after == SubSeq(stream, FirstAt(stream, " ") + 1, Len(stream))
    IN  IF FirstAt(after, Nul) = 0 THEN after
        ELSE SubSeq(after, 1, FirstAt(after, Nul) - 1)

\* C12: read_header fails when the type is not blob, tree or commit, when
\* the size is not an unsigned decimal number that fits in 64 bits, and when
\* the stream ends before the space or before the NUL.
C12_MalformedHeaderIsError ==
    hdr.pc = "done"
        => LET sp == FirstAt(hdr.stream, " ")
               after == SubSeq(hdr.stream, sp + 1, Len(hdr.stream))
           IN  (\/ sp = 0
                \/ SubSeq(hdr.stream, 1, sp - 1) \notin TypeNames
                \/ FirstAt(after, Nul) = 0
                \/ SizeField(hdr.stream) = <<>>
                \/ ~AllIn(SizeField(hdr.stream), Digit)
                \/ U64Overflows(SizeField(hdr.stream)))
                    => hdr.result.tag = "Err"

(***************************************************************************)
(* Commit dates (src/src/commits.rs, parse_commit_date).  A parsed date is *)
(* [utc, offset]: the seconds since the epoch as decimal digits without    *)
(* leading zeros, and the offset of the time zone in seconds.              *)
(***************************************************************************)
I64Max == <<"9", "2", "2", "3", "3", "7", "2", "0", "3", "6", "8", "5", "4", "7", "7", "5", "8", "0", "7">>

\* the last second chrono::NaiveDateTime represents (31 Dec 262143)
MaxTimestamp == <<"8", "2", "1", "0", "2", "9", "8", "4", "1", "2", "7", "9", "9">>

\* FixedOffset::east_opt accepts offsets strictly inside one day
DaySeconds == 86400

\* the number written by digits is greater than the one written by max
DigitsExceed(digits, max) ==
    LET t == StripZeros(digits)
    IN  \/ Len(t) > Len(max)
        \/ Len(t) = Len(max) /\ DigitsGreater(t, max)

\* DATETIME_REGEX  ^([0-9][0-9]*) ([+-][0-9]{2})([0-9]{2})
MatchesDate(str) ==
    LET sp == FirstAt(str, " ")
    IN  /\ sp > 1
        /\ AllIn(SubSeq(str, 1, sp - 1), Digit)
        /\ Len(str) >= sp + 5
        /\ str[sp + 1] \in {"+", "-"}
        /\ AllIn(SubSeq(str, sp + 2, sp + 5), Digit)

Timestamp(str) == SubSeq(str, 1, FirstAt(str, " ") - 1)

\* str::parse::<i32> of a sign and two digits
ParseSigned(str) ==
    IF str[1] = "-" THEN 0 - DecimalValue(Tail(str)) ELSE DecimalValue(Tail(str))

TzHours(str) == ParseSigned(SubSeq(str, FirstAt(str, " ") + 1, FirstAt(str, " ") + 3))

TzMinutes(str) == DecimalValue(SubSeq(str, FirstAt(str, " ") + 4, FirstAt(str, " ") + 5))

DateErr(what) == [tag |-> "Err", error |-> what, utc |-> <<>>, offset |-> 0]

DateOk(utc, offset) == [tag |-> "Ok", error |-> "", utc |-> utc, offset |-> offset]

\* the argument of FixedOffset::east_opt
EastSeconds(str) == TzHours(str) * 3600 + TzMinutes(str) * 60

parse_commit_date(date_str) ==
    IF ~MatchesDate(date_str) THEN DateErr("InvalidCommit invalid date")
    ELSE IF DigitsExceed(Timestamp(date_str), I64Max)
         THEN DateErr("InvalidCommit parse")
    ELSE IF DigitsExceed(Timestamp(date_str), MaxTimestamp)
         THEN DateErr("InvalidCommit invalid timestamp")
    ELSE IF ~(0 - DaySeconds < EastSeconds(date_str) /\ EastSeconds(date_str) < DaySeconds)
         THEN DateErr("InvalidCommit invalid timezone")
    ELSE DateOk(StripZeros(Timestamp(date_str)), EastSeconds(date_str))

\* the largest N of the hour fields "00".."0N" that are tried besides the
\* fixed ones
MaxHour == 2

TwoDigits(n) == <<DigitChar(n \div 10), DigitChar(n % 10)>>

TimestampTexts ==
    {<<"0">>, <<"5">>, <<"0", "0", "7">>, <<"1", "5", "0", "0", "0", "0", "0", "0", "0", "0">>, <<"8", "2", "1", "0", "2", "9", "8", "4", "1", "2", "7", "9", "9">>, <<"8", "2", "1", "0", "2", "9", "8", "4", "1", "2", "8", "0", "0">>,
     <<"9", "2", "2", "3", "3", "7", "2", "0", "3", "6", "8", "5", "4", "7", "7", "5", "8", "0", "7">>, <<"9", "2", "2", "3", "3", "7", "2", "0", "3", "6", "8", "5", "4", "7", "7", "5", "8", "0", "8">>}

HourTexts == {TwoDigits(n) : n \in 0..MaxHour} \cup {<<"0", "5">>, <<"2", "3">>, <<"2", "4">>, <<"9", "9">>}

MinuteTexts == {<<"0", "0">>, <<"3", "0">>, <<"5", "9">>, <<"6", "0">>, <<"9", "9">>}

DatePool ==
    {ts \o <<" ", sg>> \o hh \o mm :
        ts \in TimestampTexts, sg \in {"+", "-"}, hh \in HourTexts, mm \in MinuteTexts}
    \cup {<<>>, <<"5">>, <<"5", " ", "0", "5", "3", "0">>, <<"-", "5", " ", "+", "0", "5", "3", "0">>, <<"x", " ", "+", "0", "5", "3", "0">>, <<"5", " ", "+", "0", "5", "3">>, <<"5", " ", " ", "+", "0", "5", "3", "0">>,
          <<"5", " ", "+", "0", "5", "3", "0", " ", "t", "r", "a", "i", "l", "i", "n", "g">>}

NoDate == [tag |-> "None", error |-> "", utc |-> <<>>, offset |-> 0]

InitDate ==
    /\ ResolverIdle
    /\ hdr = Idle /\ com = Idle /\ ndx = Idle /\ unt = Idle /\ log = Idle
    /\ rvp = Idle /\ cfg = Idle /\ pgr = Idle
    /\ dat \in {[pc |-> "start", date_str |-> d, result |-> NoDate] : d \in DatePool}

ParseDate ==
    /\ dat.pc = "start"
    /\ dat' = [dat EXCEPT !.pc = "done", !.result = parse_commit_date(dat.date_str)]
    /\ UNCHANGED <<resolverVars, hdr, com, ndx, unt, log, rvp, cfg, pgr>>

NextOfDate == ParseDate

SpecDate == InitDate /\ [][NextOfDate]_vars

\* the offset that sign S, hours HH and minutes MM stand for
SignedOffset(str) ==
    LET sp == FirstAt(str, " ")
        sign == IF str[sp + 1] = "-" THEN 0 - 1 ELSE 1
    IN  sign * (DecimalValue(SubSeq(str, sp + 2, sp + 3)) * 3600
                + DecimalValue(SubSeq(str, sp + 4, sp + 5)) * 60)

\* C15: the offset of a parsed date is S * (HH*3600 + MM*60) seconds, the
\* instant is the epoch-seconds value, and a date whose offset or timestamp
\* is outside the representable range is rejected with InvalidCommit.
C15_OffsetIsSignedHoursAndMinutes ==
    (dat.pc = "done" /\ MatchesDate(dat.date_str))
        => /\ dat.result.tag = "Ok"
                => /\ dat.result.offset = SignedOffset(dat.date_str)
                   /\ dat.result.utc = StripZeros(Timestamp(dat.date_str))
           /\ (\/ DigitsExceed(Timestamp(dat.date_str), MaxTimestamp)
               \/ SignedOffset(dat.date_str) >= DaySeconds
               \/ SignedOffset(dat.date_str) <= 0 - DaySeconds)
                => dat.result.tag = "Err"

(***************************************************************************)
(* Commit decoding from text (src/src/commits.rs, parse_commit): the       *)
(* payload is read line by line, each line is matched against the regular  *)
(* expressions, and the rest of the payload is the message.                *)
(***************************************************************************)
\* largest number of parent lines of the payloads that are tried
MaxParents == 2
\* largest length of the message bodies that are tried
MaxBody == 3

\* TREE_REGEX ^tree ([0-9a-f]{40})$ and PARENT_REGEX ^parent ([0-9a-f]{40})$
MatchesRev(line, keyword) ==
    /\ StartsWith(line, keyword)
    /\ IsFullSha1(SubSeq(line, Len(keyword) + 1, Len(line)))

RevOf(line, keyword) == SubSeq(line, Len(keyword) + 1, Len(line))

\* where the digits that end at position e begin
DigitRunStart(line, e) ==
    CHOOSE i \in 1..e :
        /\ AllIn(SubSeq(line, i, e), Digit)
        /\ \A j \in 1..(i - 1) : ~AllIn(SubSeq(line, j, e), Digit)

\* AUTHOR_REGEX ^author (.+) (\d+ [+-]\d{4})$ and COMMITTER_REGEX: the line
\* ends with a sign and four digits, before them a space, before it digits
\* that follow a space, and the name before that space is not empty
MatchesUser(line, keyword) ==
    LET n == Len(line)
    IN  /\ StartsWith(line, keyword)
        /\ n >= Len(keyword) + 9
        /\ AllIn(SubSeq(line, n - 3, n), Digit)
        /\ line[n - 4] \in {"+", "-"}
        /\ line[n - 5] = " "
        /\ line[n - 6] \in Digit
        /\ LET st == DigitRunStart(line, n - 6)
           IN  /\ st - 2 >= Len(keyword) + 1
               /\ line[st - 1] = " "

UserName(line, keyword) ==
    SubSeq(line, Len(keyword) + 1, DigitRunStart(line, Len(line) - 6) - 2)

UserDate(line) == SubSeq(line, DigitRunStart(line, Len(line) - 6), Len(line))

OtherLine == [kind |-> "other", rev |-> <<>>]

\* the author or committer of a matching line; a date parse_commit_date
\* rejects fails the whole parse like a line that matches nothing
UserToken(line, keyword, kind) ==
    LET date == parse_commit_date(UserDate(line))
    IN  IF date.tag = "Err" THEN OtherLine
        ELSE [kind |-> kind, rev |-> <<>>,
              user |-> CommitUser(UserName(line, keyword), date.utc, date.offset)]

\* the regular expressions in the order parse_commit tries them
LineToken(line) ==
    IF MatchesRev(line, <<"t", "r", "e", "e", " ">>) THEN [kind |-> "tree", rev |-> RevOf(line, <<"t", "r", "e", "e", " ">>)]
    ELSE IF MatchesRev(line, <<"p", "a", "r", "e", "n", "t", " ">>)
         THEN [kind |-> "parent", rev |-> RevOf(line, <<"p", "a", "r", "e", "n", "t", " ">>)]
    ELSE IF MatchesUser(line, <<"a", "u", "t", "h", "o", "r", " ">>) THEN UserToken(line, <<"a", "u", "t", "h", "o", "r", " ">>, "author")
    ELSE IF MatchesUser(line, <<"c", "o", "m", "m", "i", "t", "t", "e", "r", " ">>)
         THEN UserToken(line, <<"c", "o", "m", "m", "i", "t", "t", "e", "r", " ">>, "committer")
    ELSE OtherLine

NoCommit == [tag |-> "None"]

\* the lines of a payload, each ended by a newline
RECURSIVE JoinLines(_)
JoinLines(lines) ==
    IF lines = <<>> THEN <<>>
    ELSE Head(lines) \o <<"\n">> \o JoinLines(Tail(lines))

TreeOpts == {<<>>, <<<<"t", "r", "e", "e", " ">> \o Tr>>, <<<<"t", "r", "e", "e", " ", "a", "b", "c">>>>}

\* n parent lines, naming K1 and K2 in turn
ParentLines(n) ==
    [i \in 1..n |-> <<"p", "a", "r", "e", "n", "t", " ">> \o (IF i % 2 = 1 THEN K1 ELSE K2)]

ParentOpts == {ParentLines(n) : n \in 0..MaxParents}

AuthorOpts ==
    {<<>>, <<<<"a", "u", "t", "h", "o", "r", " ", "A", " ", "5", " ", "+", "0", "0", "0", "0">>>>, <<<<"a", "u", "t", "h", "o", "r", " ", "A", " ", "1", " ", "0", " ", "-", "0", "5", "3", "0">>>>,
     <<<<"a", "u", "t", "h", "o", "r", " ", "A", " ", "5", " ", "+", "9", "9", "0", "0">>>>, <<<<"a", "u", "t", "h", "o", "r", " ", "A">>>>}

CommitterOpts == {<<>>, <<<<"c", "o", "m", "m", "i", "t", "t", "e", "r", " ", "C", " ", "7", " ", "+", "0", "1", "0", "0">>>>}

HeaderPool ==
    {t \o ps \o a \o c :
        t \in TreeOpts, ps \in ParentOpts, a \in AuthorOpts, c \in CommitterOpts}

GoodHeader == <<<<"t", "r", "e", "e", " ">> \o Tr, <<"p", "a", "r", "e", "n", "t", " ">> \o K1, <<"a", "u", "t", "h", "o", "r", " ", "A", " ", "5", " ", "+", "0", "0", "0", "0">>, <<"c", "o", "m", "m", "i", "t", "t", "e", "r", " ", "C", " ", "7", " ", "+", "0", "1", "0", "0">>>>

\* the line that ends the header: empty, of white space only, or missing
BlankOpts == {<<"\n">>, <<" ", "\n">>, <<>>}

RECURSIVE TextsUpTo(_, _)
TextsUpTo(chars, n) ==
    IF n = 0 THEN {<<>>}
    ELSE LET shorter == TextsUpTo(chars, n - 1)
         IN  shorter \cup {<<c>> \o t : c \in chars, t \in {u \in shorter : Len(u) = n - 1}}

BodyPool == TextsUpTo({"m", " ", "\n"}, MaxBody) \cup {<<BadByte, "\n">>}

FewBodies == {<<>>, <<"m", "\n">>, <<"x">>, <<"p", "a", "r", "e", "n", "t", " ">> \o K2 \o <<"x">>}

PayloadPool ==
    {JoinLines(GoodHeader) \o bl \o body : bl \in BlankOpts, body \in BodyPool}
    \cup {JoinLines(h) \o bl \o body :
            h \in HeaderPool, bl \in BlankOpts, body \in FewBodies}

NamePool == {K3, <<"x">>}

InitCommit ==
    /\ ResolverIdle
    /\ hdr = Idle /\ dat = Idle /\ ndx = Idle /\ unt = Idle /\ log = Idle
    /\ rvp = Idle /\ cfg = Idle /\ pgr = Idle
    /\ com \in {[pc |-> "header", name |-> x, payload |-> p, rest |-> p,
                 builder |-> NewBuilder(x), message |-> <<>>, result |-> NoCommit] :
                    x \in NamePool, p \in PayloadPool}

\* one iteration of the loop of parse_commit: read_line, pop, and either
\* leave the loop, feed the builder, or fail
ReadLine ==
    /\ com.pc = "header"
    /\ LET raw == Consumed(com.rest, "\n")
           line == Pop(raw)
       IN  com' =
             IF ~IsUtf8(raw)
             THEN [com EXCEPT !.pc = "done", !.rest = Remaining(com.rest, "\n"),
                              !.result = CommitErr("InvalidCommit")]
             ELSE IF Trim(line) = <<>>
             THEN [com EXCEPT !.pc = "message", !.rest = Remaining(com.rest, "\n")]
             ELSE IF LineToken(line).kind = "other"
             THEN [com EXCEPT !.pc = "done", !.rest = Remaining(com.rest, "\n"),
                              !.result = CommitErr("InvalidCommit")]
             ELSE [com EXCEPT !.rest = Remaining(com.rest, "\n"),
                              !.builder = BuilderStep(com.builder, LineToken(line))]
    /\ UNCHANGED <<resolverVars, hdr, dat, ndx, unt, log, rvp, cfg, pgr>>

\* the message: read_to_string, pop, trim, and build
ReadMessage ==
    /\ com.pc = "message"
    /\ com' =
         IF ~IsUtf8(com.rest)
         THEN [com EXCEPT !.pc = "done", !.rest = <<>>,
                          !.result = CommitErr("InvalidCommit")]
         ELSE [com EXCEPT !.pc = "done", !.rest = <<>>, !.message = com.rest,
                          !.result = Build([com.builder EXCEPT
                                              !.message = Some(Trim(Pop(com.rest)))])]
    /\ UNCHANGED <<resolverVars, hdr, dat, ndx, unt, log, rvp, cfg, pgr>>

NextCommit == ReadLine \/ ReadMessage

SpecCommit == InitCommit /\ [][NextCommit]_vars

\* the lines of a payload before its first blank line
RECURSIVE HeaderRegion(_)
HeaderRegion(text) ==
    IF text = <<>> THEN <<>>
    ELSE LET raw == Consumed(text, "\n")
             line == IF raw[Len(raw)] = "\n" THEN SubSeq(raw, 1, Len(raw) - 1) ELSE raw
         IN  IF Trim(line) = <<>> THEN <<>>
             ELSE <<line>> \o HeaderRegion(Remaining(text, "\n"))

HasLine(lines, prefix) == \E i \in 1..Len(lines) : StartsWith(lines[i], prefix)

Parsed == com.pc = "done" /\ com.result.tag = "Commit"

\* C13: when parse_commit succeeds for identifier x, the record has name x,
\* its tree is 40 hex characters taken from a tree line, its author and
\* committer are taken from an author and a committer line, and its parent
\* is absent exactly when the header has no parent line; a payload without
\* a tree, author or committer line before the blank line yields no record.
C13_RecordComesFromHeaderLines ==
    LET lines == HeaderRegion(com.payload)
    IN  /\ Parsed =>
            /\ com.result.name = com.name
            /\ IsFullSha1(com.result.tree)
            /\ HasLine(lines, <<"t", "r", "e", "e", " ">> \o com.result.tree)
            /\ HasLine(lines, <<"a", "u", "t", "h", "o", "r", " ">> \o com.result.author.name \o <<" ">>)
            /\ HasLine(lines, <<"c", "o", "m", "m", "i", "t", "t", "e", "r", " ">> \o com.result.committer.name \o <<" ">>)
            /\ (com.result.parent = None) <=> ~HasLine(lines, <<"p", "a", "r", "e", "n", "t", " ">>)
            /\ com.result.parent # None
                    => HasLine(lines, <<"p", "a", "r", "e", "n", "t", " ">> \o com.result.parent[1])
        /\ (com.pc = "done"
            /\ (\/ ~HasLine(lines, <<"t", "r", "e", "e", " ">>)
                \/ ~HasLine(lines, <<"a", "u", "t", "h", "o", "r", " ">>)
                \/ ~HasLine(lines, <<"c", "o", "m", "m", "i", "t", "t", "e", "r", " ">>)))
                => com.result.tag = "Err"

C13_Witness ==
    /\ Parsed
    /\ com.result.parent # None
    /\ com.result.author.name = <<"A", " ", "1">>

\* a single trailing newline removed
StripNewline(text) ==
    IF text # <<>> /\ text[Len(text)] = "\n"
    THEN SubSeq(text, 1, Len(text) - 1)
    ELSE text

\* C14: the message of the record is the text after the blank line with a
\* single trailing newline removed and then trimmed, whether or not the
\* text ends in a newline; a body that is a single newline gives the empty
\* message.
C14_MessageIsTrimmedBody ==
    Parsed => /\ com.result.message = Trim(StripNewline(com.message))
              /\ com.message = <<"\n">> => com.result.message = <<>>

(***************************************************************************)
(* The working directory.  A disk maps the path of a node, relative to     *)
(* the current directory, to [kind, target]: a "file", a "dir", or a       *)
(* "link" (symbolic link) to the node at path target.  The links of the    *)
(* disks that are tried form no cycle.                                     *)
(***************************************************************************)
File == [kind |-> "file", target |-> <<>>]

Dir == [kind |-> "dir", target |-> <<>>]

Link(target) == [kind |-> "link", target |-> target]

\* the absolute path of the current directory
Cwd == <<"/", "w">>

StripDot(path) ==
    IF StartsWith(path, <<".", "/">>) THEN SubSeq(path, 3, Len(path)) ELSE path

\* fs::canonicalize: the absolute path with every link resolved, None when
\* the path or the target of a link does not exist
RECURSIVE canonicalize(_, _)
canonicalize(disk, path) ==
    LET p == StripDot(path)
    IN  IF p = <<".">> THEN Some(Cwd)
        ELSE IF p \notin DOMAIN disk THEN None
        ELSE IF disk[p].kind = "link" THEN canonicalize(disk, disk[p].target)
        ELSE Some(Cwd \o <<"/">> \o p)

(***************************************************************************)
(* The index file (src/src/index.rs).  The file is a sequence of bytes,    *)
(* each a number in 0..255.                                                *)
(***************************************************************************)
\* largest number of entries of the index files that are tried
MaxEntries == 2
\* largest number of bytes cut from the end of an index file
MaxCut == 8

\* the longest path name of the entries whose length is varied
MaxPath == 9

\* "DIRC"
Magic == <<68, 73, 82, 67>>

PrefixLen == 40

HashLen == 20

FlagsLen == 2

Take(bytes, n) == SubSeq(bytes, 1, n)

Drop(bytes, n) == SubSeq(bytes, n + 1, Len(bytes))

\* read_u32::<NetworkEndian>
U32(b) == ((b[1] * 256 + b[2]) * 256 + b[3]) * 256 + b[4]

HexChars == <<"0", "1", "2", "3", "4", "5", "6", "7", "8", "9", "a", "b", "c", "d", "e", "f">>

HexByte_Unpadded(n) ==
    IF n < 16 THEN <<HexChars[n + 1]>>
    ELSE <<HexChars[(n \div 16) + 1], HexChars[(n % 16) + 1]>>

\* format!("{:02x}", n)
HexByte(n) == <<HexChars[(n \div 16) + 1], HexChars[(n % 16) + 1]>>

RECURSIVE HexString(_)
HexString(bytes) ==
    IF bytes = <<>> THEN <<>> ELSE HexByte(Head(bytes)) \o HexString(Tail(bytes))

\* the characters of the path names that are tried
Chr(b) ==
    CASE b = 46 -> "." [] b = 47 -> "/" [] b = 97 -> "a" [] b = 98 -> "b"
      [] b = 122 -> "z" [] OTHER -> "?"

\* String::from_utf8 succeeds: the bytes that are tried are ASCII or 255,
\* which no UTF-8 text contains
IsUtf8Bytes(bytes) == \A i \in 1..Len(bytes) : bytes[i] < 128

FromUtf8(bytes) == [i \in 1..Len(bytes) |-> Chr(bytes[i])]

IndexErr(kind, what) == [tag |-> "Err", error |-> kind, reason |-> what]

\* Vec::pop
PopByte(bytes) == IF bytes = <<>> THEN <<>> ELSE Take(bytes, Len(bytes) - 1)

\* the padding without the outer remainder: 8 bytes for an aligned entry
Padding_Unwrapped(version, entry_length) ==
    IF version >= 4 THEN 0 ELSE 8 - (entry_length % 8)

\* the padding after the path name
Padding(version, entry_length) ==
    IF version >= 4 THEN 0 ELSE (8 - (entry_length % 8)) % 8

\* Entry::read: [tag, entry, rest] or an error
EntryRead(version, bytes, disk) ==
    LET fixed == PrefixLen + HashLen + FlagsLen + (IF version >= 3 THEN 2 ELSE 0)
        sha1_bytes == SubSeq(bytes, PrefixLen + 1, PrefixLen + HashLen)
        after == Drop(bytes, fixed)
        path_name_bytes == Consumed(after, 0)
        path_name_length == Len(path_name_bytes)
        padding == Padding(version, fixed + path_name_length)
        tail == Remaining(after, 0)
        path == canonicalize(disk, FromUtf8(PopByte(path_name_bytes)))
    IN  IF Len(bytes) < PrefixLen THEN IndexErr("InvalidEntry", "prefix")
        ELSE IF Len(bytes) < PrefixLen + HashLen THEN IndexErr("InvalidEntry", "sha1")
        ELSE IF Len(bytes) < PrefixLen + HashLen + FlagsLen
             THEN IndexErr("InvalidEntry", "flags")
        ELSE IF Len(bytes) < fixed THEN IndexErr("InvalidEntry", "additional flags")
        ELSE IF ~IsUtf8Bytes(PopByte(path_name_bytes))
             THEN IndexErr("InvalidEntry", "path name from UTF8")
        ELSE IF Len(tail) < padding THEN IndexErr("InvalidEntry", "path name padding")
        ELSE IF path = None THEN IndexErr("InvalidEntry", "unable to parse path name")
        ELSE [tag |-> "Ok",
              entry |-> [sha1 |-> HexString(sha1_bytes), path |-> path[1]],
              rest |-> Drop(tail, padding)]

\* an entry as the index file stores it under the given version
EncodeEntry(version, e) ==
    LET fixed == PrefixLen + HashLen + FlagsLen + (IF version >= 3 THEN 2 ELSE 0)
    IN  Rep(0, PrefixLen) \o e.sha \o Rep(0, fixed - PrefixLen - HashLen)
        \o e.name \o <<0>> \o Rep(0, Padding(version, fixed + Len(e.name) + 1))

RECURSIVE EncodeEntries(_, _)
EncodeEntries(version, es) ==
    IF es = <<>> THEN <<>>
    ELSE EncodeEntry(version, Head(es)) \o EncodeEntries(version, Tail(es))

\* the bytes of the index file described by in: magic, version, declared
\* number of entries, the entries, bytes that follow them, and the number
\* of bytes missing at the end
EncodeIndex(in) ==
    LET whole == in.magic \o <<0, 0, 0, in.version>> \o <<0, 0, 0, in.declared>>
                 \o EncodeEntries(in.version, in.source) \o in.trailer
    IN  Take(whole, Len(whole) - in.cut)

ShaA == [i \in 1..HashLen |-> (i * 13) % 256]

ShaB == [i \in 1..HashLen |-> 255 - i]

\* entries for the files a and ab, for a name that is not UTF-8 and for a
\* file that does not exist
EntryA == [sha |-> ShaA, name |-> <<97>>]

EntryAb == [sha |-> ShaB, name |-> <<97, 98>>]

EntryNotUtf8 == [sha |-> ShaA, name |-> <<97, 255>>]

EntryGone == [sha |-> ShaB, name |-> <<122, 122>>]

EntryKinds == {EntryA, EntryAb, EntryNotUtf8, EntryGone}

\* an entry for the file whose name is n times the letter a
EntryOfLength(n) == [sha |-> ShaB, name |-> Rep(97, n)]

RECURSIVE ListsUpTo(_, _)
ListsUpTo(elems, n) ==
    IF n = 0 THEN {<<>>}
    ELSE LET shorter == ListsUpTo(elems, n - 1)
         IN  shorter \cup {<<e>> \o l : e \in elems, l \in {u \in shorter : Len(u) = n - 1}}

IndexDisk ==
    [p \in {Rep("a", n) : n \in 1..MaxPath} |-> File] @@ (<<"a", "b">> :> File)

\* an extension after the entries
Extension == <<84, 82, 69, 69, 0, 0, 0, 1, 7>>

IndexInput(exists, magic, version, declared, source, trailer, cut) ==
    [exists |-> exists, magic |-> magic, version |-> version, declared |-> declared,
     source |-> source, trailer |-> trailer, cut |-> cut]

IndexInputs ==
    {IndexInput(FALSE, Magic, 2, 0, <<>>, <<>>, 0),
     IndexInput(TRUE, <<68, 73, 82, 88>>, 2, 0, <<>>, <<>>, 0),
     IndexInput(TRUE, <<68, 73, 82>>, 2, 0, <<>>, <<>>, 0)}
    \cup {IndexInput(TRUE, Magic, v, n, es, tr, 0) :
            v \in 1..5, n \in 0..(MaxEntries + 1), es \in ListsUpTo(EntryKinds, MaxEntries),
            tr \in {<<>>, Extension}}
    \cup {IndexInput(TRUE, Magic, v, Len(es), es, <<>>, cut) :
            v \in {2, 3, 4}, es \in {<<>>, <<EntryAb>>, <<EntryA, EntryAb>>},
            cut \in 1..MaxCut}
    \cup {IndexInput(TRUE, Magic, v, 2, <<EntryOfLength(n), EntryA>>, <<>>, 0) :
            v \in 1..5, n \in 1..MaxPath}

NoIndex == [tag |-> "None"]

InitIndex ==
    /\ ResolverIdle
    /\ hdr = Idle /\ com = Idle /\ dat = Idle /\ unt = Idle /\ log = Idle
    /\ rvp = Idle /\ cfg = Idle /\ pgr = Idle
    /\ ndx \in {[pc |-> "start", input |-> in, disk |-> IndexDisk,
                 rest |-> EncodeIndex(in), version |-> 0, num_entries |-> 0,
                 entries |-> <<>>, result |-> NoIndex] : in \in IndexInputs}

IndexFails(kind, what) ==
    [ndx EXCEPT !.pc = "done", !.result = IndexErr(kind, what)]

\* Index::read up to the loop: open, magic, version, number of entries
ReadIndexHeader ==
    /\ ndx.pc = "start"
    /\ ndx' =
         IF ~ndx.input.exists THEN IndexFails("InvalidIndex", "unable to read index file")
         ELSE IF Len(ndx.rest) < 4 THEN IndexFails("InvalidIndex", "unable to read header")
         ELSE IF Take(ndx.rest, 4) # Magic THEN IndexFails("InvalidIndex", "invalid header")
         ELSE IF Len(ndx.rest) < 8 THEN IndexFails("InvalidIndex", "version")
         ELSE IF Len(ndx.rest) < 12 THEN IndexFails("InvalidIndex", "num_entries")
         ELSE [ndx EXCEPT !.pc = "entries",
                          !.version = U32(SubSeq(ndx.rest, 5, 8)),
                          !.num_entries = U32(SubSeq(ndx.rest, 9, 12)),
                          !.rest = Drop(ndx.rest, 12)]
    /\ UNCHANGED <<resolverVars, hdr, com, dat, unt, log, rvp, cfg, pgr>>

\* one iteration of the loop over the entries
ReadEntry ==
    /\ ndx.pc = "entries"
    /\ Len(ndx.entries) < ndx.num_entries
    /\ LET e == EntryRead(ndx.version, ndx.rest, ndx.disk)
       IN  ndx' = IF e.tag = "Err"
                  THEN [ndx EXCEPT !.pc = "done", !.result = e]
                  ELSE [ndx EXCEPT !.entries = Append(ndx.entries, e.entry),
                                   !.rest = e.rest]
    /\ UNCHANGED <<resolverVars, hdr, com, dat, unt, log, rvp, cfg, pgr>>

\* the loop is over: whatever follows the entries is ignored
ReturnIndex ==
    /\ ndx.pc = "entries"
    /\ Len(ndx.entries) = ndx.num_entries
    /\ ndx' = [ndx EXCEPT !.pc = "done",
                          !.result = [tag |-> "Ok", version |-> ndx.version,
                                      entries |-> ndx.entries]]
    /\ UNCHANGED <<resolverVars, hdr, com, dat, unt, log, rvp, cfg, pgr>>

NextIndex == ReadIndexHeader \/ ReadEntry \/ ReturnIndex

SpecIndex == InitIndex /\ [][NextIndex]_vars

IndexRead == ndx.pc = "done" /\ ndx.result.tag = "Ok"

HexValue(c) == CHOOSE k \in 0..15 : HexChars[k + 1] = c

\* the file holds the first n entries of its source unharmed
Intact(in, n) ==
    /\ n <= Len(in.source)
    /\ in.cut = 0 \/ n < Len(in.source)

\* C16: when Index::read succeeds, it returns as many entries as the header
\* declares (also for no entries, and whatever follows the entries), in the
\* order of the file, and the sha1 of each is the 40-character lower-case
\* hexadecimal rendering of its 20 hash bytes.
C16_EntriesAsDeclared ==
    IndexRead =>
        /\ Len(ndx.result.entries) = ndx.input.declared
        /\ \A i \in 1..Len(ndx.result.entries) :
            LET sha1 == ndx.result.entries[i].sha1
            IN  /\ Len(sha1) = 2 * HashLen
                /\ \A j \in 1..Len(sha1) : sha1[j] \in Hex
                /\ i <= Len(ndx.input.source) =>
                    \A j \in 1..HashLen :
                        /\ HexValue(sha1[2 * j - 1]) = ndx.input.source[i].sha[j] \div 16
                        /\ HexValue(sha1[2 * j]) = ndx.input.source[i].sha[j] % 16
                /\ Intact(ndx.input, i) =>
                    ndx.result.entries[i].path
                        = Cwd \o <<"/">> \o FromUtf8(ndx.input.source[i].name)

C16_Witness ==
    /\ IndexRead
    /\ Len(ndx.result.entries) = 2
    /\ ndx.input.trailer # <<>>
    /\ ndx.result.entries[1].sha1 # ndx.result.entries[2].sha1

\* C17: an Index is returned only for a file that begins with "DIRC" and
\* whose version is 2, 3 or 4; any other magic or version is InvalidIndex.
C17_OnlyVersions234 ==
    ndx.pc = "done" =>
        /\ ndx.result.tag = "Ok" => ndx.result.version \in {2, 3, 4}
        /\ (ndx.input.exists /\ Len(EncodeIndex(ndx.input)) >= 8
            /\ (\/ Take(EncodeIndex(ndx.input), 4) # Magic
                \/ ndx.input.version \notin {2, 3, 4}))
                => ndx.result.tag = "Err" /\ ndx.result.error = "InvalidIndex"

\* C18: Index::read fails, and returns no entries, when the file ends before
\* all declared entries are complete (also when a path name reaches the end
\* of the file without its NUL), when a path name is not UTF-8, and when a
\* path does not exist on disk.
C18_IncompleteOrBadEntryIsError ==
    LET in == ndx.input
        used == IF in.declared < Len(in.source) THEN Take(in.source, in.declared)
                ELSE in.source
    IN  (/\ ndx.pc = "done"
         /\ in.exists /\ in.magic = Magic
         /\ \/ in.declared > Len(in.source) /\ in.trailer = <<>>
            \/ in.declared = Len(in.source) /\ in.cut > 0
            \/ \E i \in 1..Len(used) : ~IsUtf8Bytes(used[i].name)
            \/ \E i \in 1..Len(used) :
                    canonicalize(ndx.disk, FromUtf8(used[i].name)) = None)
            => ndx.result.tag = "Err"

(***************************************************************************)
(* Untracked files (src/src/index.rs, untracked_files).                    *)
(***************************************************************************)
\* the loop of Index::read as a whole
RECURSIVE ReadEntries(_, _, _, _, _)
ReadEntries(version, n, bytes, disk, entries) ==
    IF n = 0 THEN [tag |-> "Ok", version |-> version, entries |-> entries]
    ELSE LET e == EntryRead(version, bytes, disk)
         IN  IF e.tag = "Err" THEN e
             ELSE ReadEntries(version, n - 1, e.rest, disk, Append(entries, e.entry))

\* Index::read
index_read(exists, bytes, disk) ==
    IF ~exists THEN IndexErr("InvalidIndex", "unable to read index file")
    ELSE IF Len(bytes) < 4 THEN IndexErr("InvalidIndex", "unable to read header")
    ELSE IF Take(bytes, 4) # Magic THEN IndexErr("InvalidIndex", "invalid header")
    ELSE IF Len(bytes) < 8 THEN IndexErr("InvalidIndex", "version")
    ELSE IF Len(bytes) < 12 THEN IndexErr("InvalidIndex", "num_entries")
    ELSE ReadEntries(U32(SubSeq(bytes, 5, 8)), U32(SubSeq(bytes, 9, 12)),
                     Drop(bytes, 12), disk, <<>>)

GitDir == <<".", "g", "i", "t">>

\* is_git_dir holds of the entry at path or of a directory above it, so
\* that filter_entry keeps the walk away from path
Pruned(path) ==
    \/ path = GitDir
    \/ StartsWith(path, GitDir \o <<"/">>)
    \/ EndsWith(path, <<"/">> \o GitDir)
    \/ \E i \in 1..Len(path) :
            StartsWith(SubSeq(path, i, Len(path)), <<"/">> \o GitDir \o <<"/">>)

\* the entries WalkDir::new(".") yields through filter_entry: the current
\* directory and every node not pruned; links are yielded, not followed
Walked(disk) == {<<".">>} \cup {<<".", "/">> \o p : p \in {q \in DOMAIN disk : ~Pruned(q)}}

\* Path::is_dir of a canonical path
IsDir(disk, canonical) ==
    \/ canonical = Cwd
    \/ LET p == SubSeq(canonical, Len(Cwd) + 2, Len(canonical))
       IN  p \in DOMAIN disk /\ disk[p].kind = "dir"

\* untracked_files: the index, the set of tracked paths, and the walk; an
\* element of the result is kept with the walk entry it comes from, two
\* elements with the same path are the same path twice in the vector
untracked_files(exists, bytes, disk) ==
    LET index == index_read(exists, bytes, disk)
        tracked_files == {index.entries[i].path : i \in 1..Len(index.entries)}
        all_files == {[entry |-> e, path |-> canonicalize(disk, e)[1]] :
                        e \in {w \in Walked(disk) : canonicalize(disk, w) # None}}
    IN  IF index.tag = "Err" THEN index
        ELSE [tag |-> "Ok",
              files |-> {f \in all_files : /\ ~IsDir(disk, f.path)
                                           /\ f.path \notin tracked_files}]

\* the nodes every disk that is tried has: the repository directory with a
\* file in it, and the files a and ab
BaseDisk ==
    (<<".", "g", "i", "t">> :> Dir) @@ (<<".", "g", "i", "t", "/", "z">> :> File) @@ (<<"a">> :> File) @@ (<<"a", "b">> :> File)

\* what a disk may hold besides: a file b, a directory d with a file in it,
\* and links to b, into the repository directory, to d and to nothing
ExtraNodes ==
    {(<<"b">> :> File),
     (<<"d">> :> Dir) @@ (<<"d", "/", "b">> :> File),
     (<<"l", "b">> :> Link(<<"b">>)),
     (<<"l", "z">> :> Link(<<".", "g", "i", "t", "/", "z">>)),
     (<<"l", "d">> :> Link(<<"d">>)),
     (<<"l", "x">> :> Link(<<"g", "o", "n", "e">>))}

RECURSIVE MergeAll(_)
MergeAll(nodes) ==
    IF nodes = {} THEN BaseDisk
    ELSE LET n == CHOOSE x \in nodes : TRUE
         IN  n @@ MergeAll(nodes \ {n})

DiskPool == {MergeAll(extras) : extras \in SUBSET ExtraNodes}

EntryB == [sha |-> ShaA, name |-> <<98>>]

UntrackedInputs ==
    {IndexInput(FALSE, Magic, 2, 0, <<>>, <<>>, 0)}
    \cup {IndexInput(TRUE, Magic, 2, Len(es), es, <<>>, 0) :
            es \in ListsUpTo(EntryKinds \cup {EntryB}, MaxEntries)}

NoFilesYet == [tag |-> "None"]

InitUntracked ==
    /\ ResolverIdle
    /\ hdr = Idle /\ com = Idle /\ dat = Idle /\ ndx = Idle /\ log = Idle
    /\ rvp = Idle /\ cfg = Idle /\ pgr = Idle
    /\ unt \in {[pc |-> "start", input |-> in, disk |-> d, result |-> NoFilesYet] :
                    in \in UntrackedInputs, d \in DiskPool}

ListUntracked ==
    /\ unt.pc = "start"
    /\ unt' = [unt EXCEPT !.pc = "done",
                          !.result = untracked_files(unt.input.exists,
                                                     EncodeIndex(unt.input), unt.disk)]
    /\ UNCHANGED <<resolverVars, hdr, com, dat, ndx, log, rvp, cfg, pgr>>

NextUntracked == ListUntracked

SpecUntracked == InitUntracked /\ [][NextUntracked]_vars

\* the canonical paths of the index entries of the input
TrackedPaths(in, disk) ==
    {canonicalize(disk, FromUtf8(in.source[i].name))[1] : i \in 1..Len(in.source)}

\* the canonical paths of the files that are not directories and are
\* reached from "." without entering a directory named .git
ReachablePaths(disk) ==
    {canonicalize(disk, p)[1] :
        p \in {q \in DOMAIN disk : /\ ~Pruned(q)
                                   /\ canonicalize(disk, q) # None
                                   /\ ~IsDir(disk, canonicalize(disk, q)[1])}}

IndexUnreadable(in, disk) ==
    \/ ~in.exists
    \/ \E i \in 1..Len(in.source) :
            \/ ~IsUtf8Bytes(in.source[i].name)
            \/ canonicalize(disk, FromUtf8(in.source[i].name)) = None

\* C19: untracked_files returns exactly the canonical paths of the files
\* that are not directories and are reachable from "." outside .git, minus
\* the canonical paths of the index entries: no tracked path, no path under
\* .git, no directory, no path twice, no untracked file omitted; and it
\* fails when the index cannot be read.
C19_UntrackedIsWalkMinusIndex ==
    unt.pc = "done" =>
        IF IndexUnreadable(unt.input, unt.disk) THEN unt.result.tag = "Err"
        ELSE /\ unt.result.tag = "Ok"
             /\ {f.path : f \in unt.result.files}
                    = ReachablePaths(unt.disk) \ TrackedPaths(unt.input, unt.disk)
             /\ \A f \in unt.result.files :
                    /\ f.path \notin TrackedPaths(unt.input, unt.disk)
                    /\ ~StartsWith(f.path, Cwd \o <<"/", ".", "g", "i", "t", "/">>)
                    /\ ~IsDir(unt.disk, f.path)
                    /\ \A g \in unt.result.files : g.path = f.path => g = f

(***************************************************************************)
(* The log command (src/src/bin/log.rs, print_history).  log.printed is    *)
(* the sequence of the names of the commits printed so far, log.status     *)
(* the exit status of the process.                                         *)
(***************************************************************************)
\* the revisions given to log
LogRevs == BaseSpecs \cup {Topic \o Caret, Main \o <<"~", "1">>}

\* a process that has not exited has no status; a panic or a stack
\* overflow ends it without the statuses of cli::exit_with
Running == 0 - 1

Aborted == 101

InitLog ==
    /\ fs \in FsPool
    /\ rev = <<>> /\ result = NoResult /\ reads = {} /\ called = FALSE
    /\ hdr = Idle /\ com = Idle /\ dat = Idle /\ ndx = Idle /\ unt = Idle
    /\ rvp = Idle /\ cfg = Idle /\ pgr = Idle
    /\ log \in {[pc |-> "start", rev |-> r, current |-> None, printed |-> <<>>,
                 status |-> Running] : r \in LogRevs}

\* print_history: resolve the revision, status 1 when that fails
LogResolve ==
    /\ log.pc = "start"
    /\ LET out == resolve(fs, log.rev, MaxDepth)
       IN  log' = CASE out.tag = "Ok" ->
                        [log EXCEPT !.pc = "walk", !.current = Some(out.name)]
                    [] out.tag = "InvalidRevision" ->
                        [log EXCEPT !.pc = "exit", !.status = 1]
                    [] OTHER ->
                        [log EXCEPT !.pc = "exit", !.status = Aborted]
    /\ UNCHANGED <<resolverVars, hdr, com, dat, ndx, unt, rvp, cfg, pgr>>

\* one iteration of the loop: read the object, print it and go to its
\* parent when it is a commit; status 1 when the read fails, 2 when the
\* object is not a commit
LogStep ==
    /\ log.pc = "walk"
    /\ log.current # None
    /\ LET name == log.current[1]
           obj == read_object(fs, name)
       IN  log' = CASE obj.tag = "Commit" ->
                        [log EXCEPT !.printed = Append(log.printed, name),
                                    !.current = obj.parent]
                    [] obj.tag = "Err" -> [log EXCEPT !.pc = "exit", !.status = 1]
                    [] obj.tag = "Panic" ->
                        [log EXCEPT !.pc = "exit", !.status = Aborted]
                    [] OTHER -> [log EXCEPT !.pc = "exit", !.status = 2]
    /\ UNCHANGED <<resolverVars, hdr, com, dat, ndx, unt, rvp, cfg, pgr>>

\* the loop ends at a commit without parent: cli::success, status 0
LogSuccess ==
    /\ log.pc = "walk"
    /\ log.current = None
    /\ log' = [log EXCEPT !.pc = "exit", !.status = 0]
    /\ UNCHANGED <<resolverVars, hdr, com, dat, ndx, unt, rvp, cfg, pgr>>

NextLog == LogResolve \/ LogStep \/ LogSuccess

SpecLog == InitLog /\ [][NextLog]_vars

\* the first parent line of a stored commit
FirstParent(f, name) ==
    LET lines == StoredObject(f, name).lines
        at == {i \in 1..Len(lines) : lines[i].kind = "parent"}
    IN  IF at = {} THEN None
        ELSE Some(lines[CHOOSE i \in at : \A j \in at : i <= j].rev)

\* the walk along first parents from name: the commits to print and the
\* status to exit with
RECURSIVE FirstParentWalk(_, _, _)
FirstParentWalk(f, name, fuel) ==
    LET obj == read_object(f, name)
    IN  IF fuel = 0 \/ obj.tag \in {"Err", "Panic"} THEN [printed |-> <<>>, status |-> 1]
        ELSE IF obj.tag # "Commit" THEN [printed |-> <<>>, status |-> 2]
        ELSE IF FirstParent(f, name) = None THEN [printed |-> <<name>>, status |-> 0]
        ELSE LET up == FirstParentWalk(f, FirstParent(f, name)[1], fuel - 1)
             IN  [printed |-> <<name>> \o up.printed, status |-> up.status]

\* C20: log <rev> prints the commit resolve(rev) names and then each
\* successive first parent, each commit once and a child before its parent,
\* and exits 0 at a commit without parent; it exits 1 when the resolution or
\* the read of an object fails and 2 when an object of the chain is not a
\* commit, the commits before it being printed.
C20_LogWalksFirstParents ==
    log.pc = "exit" =>
        LET out == resolve(fs, log.rev, MaxDepth)
        IN  IF out.tag # "Ok" THEN log.status = 1 /\ log.printed = <<>>
            ELSE /\ log.printed = FirstParentWalk(fs, out.name, MaxDepth).printed
                 /\ log.status = FirstParentWalk(fs, out.name, MaxDepth).status
                 /\ \A i, j \in 1..Len(log.printed) :
                        log.printed[i] = log.printed[j] => i = j

(***************************************************************************)
(* The rev-parse command (src/src/bin/rev-parse.rs).  rvp.printed is the   *)
(* sequence of the lines printed so far, rvp.next the index of the         *)
(* argument the loop is at.                                                *)
(***************************************************************************)
\* largest number of arguments of rev-parse
MaxArgs == 2

\* the arguments given to rev-parse
RevArgs ==
    {K3, HeadSpec, Main, Main \o Caret, Gone, Junk, <<"a", "b", "c", "d">>}

\* docopt demands at least one <revision>
ArgLists == ListsUpTo(RevArgs, MaxArgs) \ {<<>>}

InitRevParse ==
    /\ fs \in FsPool
    /\ rev = <<>> /\ result = NoResult /\ reads = {} /\ called = FALSE
    /\ hdr = Idle /\ com = Idle /\ dat = Idle /\ ndx = Idle /\ unt = Idle
    /\ log = Idle /\ cfg = Idle /\ pgr = Idle
    /\ rvp \in {[pc |-> "loop", revs |-> a, next |-> 1, printed |-> <<>>,
                 status |-> Running] : a \in ArgLists}

\* one iteration of the loop of parse_and_print_revisions: resolve the
\* argument and print the name, or leave with status 1
PrintRevision ==
    /\ rvp.pc = "loop"
    /\ rvp.next <= Len(rvp.revs)
    /\ LET out == resolve(fs, rvp.revs[rvp.next], MaxDepth)
       IN  rvp' = CASE out.tag = "Ok" ->
                        [rvp EXCEPT !.next = rvp.next + 1,
                                    !.printed = Append(rvp.printed, out.name)]
                    [] out.tag = "InvalidRevision" ->
                        [rvp EXCEPT !.pc = "exit", !.status = 1]
                    [] OTHER ->
                        [rvp EXCEPT !.pc = "exit", !.status = Aborted]
    /\ UNCHANGED <<resolverVars, hdr, com, dat, ndx, unt, log, cfg, pgr>>

\* every argument is printed: cli::success, status 0
RevParseSuccess ==
    /\ rvp.pc = "loop"
    /\ rvp.next > Len(rvp.revs)
    /\ rvp' = [rvp EXCEPT !.pc = "exit", !.status = 0]
    /\ UNCHANGED <<resolverVars, hdr, com, dat, ndx, unt, log, cfg, pgr>>

NextRevParse == PrintRevision \/ RevParseSuccess

SpecRevParse == InitRevParse /\ [][NextRevParse]_vars

\* the arguments that do not resolve to an identifier
Failing(f, revs) == {i \in 1..Len(revs) : resolve(f, revs[i], MaxDepth).tag # "Ok"}

\* C21: rev-parse prints one identifier per argument in argument order and
\* exits 0 only if every argument resolves; if argument i is the first to
\* fail it exits 1 having printed exactly the identifiers of the arguments
\* before i.
C21_RevParsePrintsInOrder ==
    rvp.pc = "exit" =>
        LET failing == Failing(fs, rvp.revs)
            first == IF failing = {} THEN Len(rvp.revs) + 1
                     ELSE CHOOSE i \in failing : \A j \in failing : i <= j
        IN  /\ rvp.status = IF failing = {} THEN 0 ELSE 1
            /\ Len(rvp.printed) = first - 1
            /\ \A i \in 1..(first - 1) :
                    rvp.printed[i] = resolve(fs, rvp.revs[i], MaxDepth).name

(***************************************************************************)
(* The configuration parser (src/src/config.rs).  The parser state is      *)
(* [chars, map]: the characters not yet consumed and the variables found,  *)
(* a function from full key to value.                                      *)
(***************************************************************************)
\* HashMap::insert
Insert(map, k, v) == (k :> v) @@ map

\* parse_comment: everything up to and including the end of the line
parse_comment(st) == [st EXCEPT !.chars = Remaining(st.chars, "\n")]

\* variable_name_for_current_section
RECURSIVE variable_name_for_current_section(_, _)
variable_name_for_current_section(sections, key_name) ==
    IF sections = <<>> THEN key_name
    ELSE Head(sections) \o <<".">>
            \o variable_name_for_current_section(Tail(sections), key_name)

\* parse_key_value_pair: the value runs to a '#', a newline, a '[' or the
\* end of the text, and is trimmed
RECURSIVE parse_key_value_pair(_, _, _, _)
parse_key_value_pair(st, sections, key_name, value) ==
    LET done(rest) == [chars |-> rest,
                       map |-> Insert(st.map,
                                      variable_name_for_current_section(sections, key_name),
                                      Trim(value))]
    IN  IF st.chars = <<>> \/ Head(st.chars) = "[" THEN done(st.chars)
        ELSE IF Head(st.chars) = "#" THEN done(parse_comment(st).chars)
        ELSE IF Head(st.chars) = "\n" THEN done(Tail(st.chars))
        ELSE parse_key_value_pair([st EXCEPT !.chars = Tail(st.chars)], sections,
                                  key_name, Append(value, Head(st.chars)))

\* the end of parse_single_variable: a key that is left is "true"
KeyAlone(st, sections, key_name) ==
    IF key_name = <<>> THEN st
    ELSE [st EXCEPT !.map = Insert(st.map,
                                   variable_name_for_current_section(sections, key_name),
                                   <<"t", "r", "u", "e">>)]

\* parse_single_variable: the key without its blanks, then '=' and a value,
\* or nothing
RECURSIVE parse_single_variable(_, _, _)
parse_single_variable(st, sections, key_name) ==
    IF st.chars = <<>> \/ Head(st.chars) = "[" THEN KeyAlone(st, sections, key_name)
    ELSE IF Head(st.chars) = "#" THEN KeyAlone(parse_comment(st), sections, key_name)
    ELSE IF Head(st.chars) = "\n"
         THEN KeyAlone([st EXCEPT !.chars = Tail(st.chars)], sections, key_name)
    ELSE IF Head(st.chars) = "="
         THEN parse_key_value_pair([st EXCEPT !.chars = Tail(st.chars)], sections,
                                   key_name, <<>>)
    ELSE IF Head(st.chars) \in {" ", "\t"}
         THEN parse_single_variable([st EXCEPT !.chars = Tail(st.chars)], sections, key_name)
    ELSE parse_single_variable([st EXCEPT !.chars = Tail(st.chars)], sections,
                               Append(key_name, Head(st.chars)))

RECURSIVE parse_variables(_, _)
parse_variables(st, sections) ==
    IF st.chars = <<>> \/ Head(st.chars) = "[" THEN st
    ELSE IF Head(st.chars) = "#" THEN parse_variables(parse_comment(st), sections)
    ELSE IF Head(st.chars) \in {" ", "\t"}
         THEN parse_variables([st EXCEPT !.chars = Tail(st.chars)], sections)
    ELSE parse_variables(parse_single_variable(st, sections, <<>>), sections)

\* parse_section: the name runs to the ']' or the end of the text
parse_section(st) ==
    LET after == Tail(st.chars)
        section_name == Pop(Consumed(after \o <<"]">>, "]"))
    IN  parse_variables([st EXCEPT !.chars = Remaining(after, "]")], <<section_name>>)

\* Parser::parse
RECURSIVE parse(_)
parse(st) ==
    IF st.chars = <<>> THEN st
    ELSE IF Head(st.chars) = "#" THEN parse(parse_comment(st))
    ELSE IF Head(st.chars) = "[" THEN parse(parse_section(st))
    ELSE parse([st EXCEPT !.chars = Tail(st.chars)])

NoVariables == <<>>

\* Config::add_from_string on a new Config
add_from_string(contents) == parse([chars |-> contents, map |-> NoVariables]).map

\* the byte of a character of the keys that are tried
Code(c) ==
    CASE c = " " -> 32 [] c = "-" -> 45 [] c = "." -> 46 [] c = "1" -> 49
      [] c = "C" -> 67 [] c = "a" -> 97 [] c = "b" -> 98 [] c = "e" -> 101
      [] c = "k" -> 107 [] c = "r" -> 114 [] c = "s" -> 115 [] c = "t" -> 116
      [] c = "u" -> 117 [] c = "v" -> 118 [] OTHER -> 127

\* the order of String: byte by byte, a prefix before its extensions
RECURSIVE StrLess(_, _)
StrLess(x, y) ==
    IF y = <<>> THEN FALSE
    ELSE IF x = <<>> THEN TRUE
    ELSE IF Code(Head(x)) # Code(Head(y)) THEN Code(Head(x)) < Code(Head(y))
    ELSE StrLess(Tail(x), Tail(y))

\* Config::all: the pairs of the map, sorted
RECURSIVE all(_)
all(map) ==
    IF DOMAIN map = {} THEN <<>>
    ELSE LET k == CHOOSE x \in DOMAIN map : \A y \in DOMAIN map : y = x \/ StrLess(x, y)
         IN  <<<<k, map[k]>>>> \o all([x \in DOMAIN map \ {k} |-> map[x]])

\* largest number of lines of the configuration texts that are tried
MaxLines == 3

ConfigLines ==
    {<<>>, <<"#", " ", "c">>, <<"[", "s", "]">>, <<"[", "C", "-", "1", "]", " ", "k", " ", "=", " ", "v">>, <<"k", " ", "=", " ", "v">>, <<"k", "=", "v", "1">>, <<"a", " ", "=", " ", "v", " ", "v">>, <<"b">>,
     <<"k", "-", "1", " ", "#", " ", "c">>, <<"a", " ", "=", " ", "b", " ", "#", " ", "c">>, <<"\t">> \o <<"k", " ", "=", " ", "v">>,
     <<"k", " ", "=", " ", "a", "[", "b", "]">>}

ConfigTexts ==
    {JoinLines(ls) : ls \in ListsUpTo(ConfigLines, MaxLines)}
    \cup {Pop(JoinLines(ls)) : ls \in ListsUpTo(ConfigLines, MaxLines)}

InitConfig ==
    /\ ResolverIdle
    /\ hdr = Idle /\ com = Idle /\ dat = Idle /\ ndx = Idle /\ unt = Idle
    /\ log = Idle /\ rvp = Idle /\ pgr = Idle
    /\ cfg \in {[pc |-> "start", contents |-> c, map |-> NoVariables, list |-> <<>>] :
                    c \in ConfigTexts}

\* Config::new and add_from_string
ParseConfig ==
    /\ cfg.pc = "start"
    /\ cfg' = [cfg EXCEPT !.pc = "parsed", !.map = add_from_string(cfg.contents)]
    /\ UNCHANGED <<resolverVars, hdr, com, dat, ndx, unt, log, rvp, pgr>>

\* Config::all
ListAll ==
    /\ cfg.pc = "parsed"
    /\ cfg' = [cfg EXCEPT !.pc = "listed", !.list = all(cfg.map)]
    /\ UNCHANGED <<resolverVars, hdr, com, dat, ndx, unt, log, rvp, pgr>>

NextConfig == ParseConfig \/ ListAll

SpecConfig == InitConfig /\ [][NextConfig]_vars

\* the text split at the newlines
RECURSIVE SplitLines(_)
SplitLines(text) ==
    IF text = <<>> THEN <<>>
    ELSE <<StripNewline(Consumed(text, "\n"))>> \o SplitLines(Remaining(text, "\n"))

\* a line without its comment
StripComment(line) ==
    IF FirstAt(line, "#") = 0 THEN line ELSE SubSeq(line, 1, FirstAt(line, "#") - 1)

IsHeader(line) ==
    /\ TrimStart(line) # <<>>
    /\ Head(TrimStart(line)) = "["
    /\ FirstAt(line, "]") > 0

\* the variable a line holds, if any: [key, value]
VariableOf(text) ==
    IF FirstAt(text, "=") > 0
    THEN Some([key |-> Trim(SubSeq(text, 1, FirstAt(text, "=") - 1)),
               value |-> Trim(SubSeq(text, FirstAt(text, "=") + 1, Len(text)))])
    ELSE IF Trim(text) # <<>>
    THEN Some([key |-> Trim(text), value |-> <<"t", "r", "u", "e">>])
    ELSE None

\* the variables of the lines read line by line: a header sets the section
\* and what follows it on its line is a variable of that section
RECURSIVE VariablesOf(_, _, _)
VariablesOf(lines, section, map) ==
    IF lines = <<>> THEN map
    ELSE LET line == StripComment(Head(lines))
             header == IsHeader(line)
             sec == IF header
                    THEN Some(SubSeq(line, FirstAt(line, "[") + 1, FirstAt(line, "]") - 1))
                    ELSE section
             text == IF header THEN SubSeq(line, FirstAt(line, "]") + 1, Len(line))
                     ELSE line
             var == VariableOf(text)
         IN  VariablesOf(Tail(lines), sec,
                         IF sec = None \/ var = None THEN map
                         ELSE Insert(map, sec[1] \o <<".">> \o var[1].key, var[1].value))

\* C22: the parsed map holds, for every variable inside a section, the key
\* "<section>.<key>" with the trimmed value without comment, or "true" for
\* a key without '='; comment lines and text outside a section give no
\* entry; a variable on the line of its section header is recorded; and
\* all() has one pair per key, ascending by key.
C22_ConfigVariables ==
    /\ cfg.pc \in {"parsed", "listed"}
            => cfg.map = VariablesOf(SplitLines(cfg.contents), None, NoVariables)
    /\ cfg.pc = "listed" =>
            /\ Len(cfg.list) = Cardinality(DOMAIN cfg.map)
            /\ \A i \in 1..Len(cfg.list) :
                    /\ cfg.list[i][1] \in DOMAIN cfg.map
                    /\ cfg.list[i][2] = cfg.map[cfg.list[i][1]]
            /\ \A i, j \in 1..Len(cfg.list) :
                    i < j => StrLess(cfg.list[i][1], cfg.list[j][1])

(***************************************************************************)
(* Termination of the resolver.                                            *)
(***************************************************************************)
\* C23: resolve(spec) terminates for every finite spec and every repository
\* state, ref files holding revision expressions included: no call recurses
\* without end.
C23_ResolveTerminates ==
    called => result.tag # "Overflow"

(***************************************************************************)
(* Merge commits.                                                          *)
(***************************************************************************)
\* the identifiers of the parent lines among the given header lines, in
\* the order of the lines
RECURSIVE ParentRevs(_)
ParentRevs(lines) ==
    IF lines = <<>> THEN <<>>
    ELSE (IF LineToken(Head(lines)).kind = "parent"
          THEN <<LineToken(Head(lines)).rev>> ELSE <<>>)
         \o ParentRevs(Tail(lines))

\* C24: for a payload with two or more parent lines the parent field of the
\* record is the identifier of the first parent line.
C24_ParentIsFirstParentLine ==
    LET parents == ParentRevs(HeaderRegion(com.payload))
    IN  (Parsed /\ Len(parents) >= 2) => com.result.parent = Some(parents[1])

(***************************************************************************)
(* The length of an index entry.                                           *)
(***************************************************************************)
\* the step of the loop of Index::read that has read one more entry
EntryWasRead ==
    ndx.pc = "entries" /\ ndx'.pc = "entries"
    /\ Len(ndx'.entries) = Len(ndx.entries) + 1

\* C25: for every version below 4 and every path-name length, the bytes
\* Entry::read consumes for one entry (metadata, hash, flags, extended
\* flags from version 3 on, path, terminating NUL and padding) are a
\* multiple of 8 in number, with between 1 and 8 NUL bytes after the path;
\* from version 4 on nothing is consumed after the terminating NUL.
C25_EntryLengthIsPadded ==
    [][EntryWasRead =>
        LET consumed == Len(ndx.rest) - Len(ndx'.rest)
            fixed == PrefixLen + HashLen + FlagsLen + (IF ndx.version >= 3 THEN 2 ELSE 0)
            terminator == FirstAt(Drop(ndx.rest, fixed), 0)
            after_path == SubSeq(ndx.rest, fixed + terminator, consumed)
        IN  /\ ndx.version < 4 => consumed % 8 = 0
            /\ (terminator > 0 /\ ndx.version < 4) =>
                    /\ Len(after_path) \in 1..8
                    /\ \A i \in 1..Len(after_path) : after_path[i] = 0
            /\ (terminator > 0 /\ ndx.version >= 4) =>
                    consumed = fixed + terminator]_vars

\* an index of version 3 was read whose first entry has a path name of 8
\* bytes (8 NUL bytes follow it) and whose second has one of 1 byte
C25_Witness ==
    /\ IndexRead
    /\ ndx.version = 3
    /\ Len(ndx.result.entries) = 2
    /\ Len(ndx.input.source) = 2
    /\ Len(ndx.input.source[1].name) = 8
    /\ ndx.rest = <<>>

(***************************************************************************)
(* The commit builder on its own (src/src/commits.rs, CommitBuilder): the  *)
(* setters in any order and any number, then build.                        *)
(***************************************************************************)
UserPool == {CommitUser(<<"A">>, 5, 0), CommitUser(<<"C">>, 7, 3600)}

MessagePool == {<<>>, <<"m">>}

InitBuilder ==
    /\ ResolverIdle
    /\ hdr = Idle /\ dat = Idle /\ ndx = Idle /\ unt = Idle /\ log = Idle
    /\ rvp = Idle /\ cfg = Idle /\ pgr = Idle
    /\ com \in {[pc |-> "building", name |-> x, builder |-> NewBuilder(x),
                 result |-> NoCommit] : x \in NamePool}

SetField(line) ==
    /\ com.pc = "building"
    /\ com' = [com EXCEPT !.builder = BuilderStep(com.builder, line)]
    /\ UNCHANGED <<resolverVars, hdr, dat, ndx, unt, log, rvp, cfg, pgr>>

\* CommitBuilder::tree
SetTree == SetField([kind |-> "tree", rev |-> Tr])

\* CommitBuilder::parent
SetParent == \E p \in {K1, K2} : SetField([kind |-> "parent", rev |-> p])

\* CommitBuilder::author
SetAuthor == \E u \in UserPool : SetField([kind |-> "author", user |-> u])

\* CommitBuilder::committer
SetCommitter == \E u \in UserPool : SetField([kind |-> "committer", user |-> u])

\* CommitBuilder::message
SetMessage ==
    /\ com.pc = "building"
    /\ \E m \in MessagePool : com' = [com EXCEPT !.builder.message = Some(m)]
    /\ UNCHANGED <<resolverVars, hdr, dat, ndx, unt, log, rvp, cfg, pgr>>

\* CommitBuilder::build consumes the builder
CallBuild ==
    /\ com.pc = "building"
    /\ com' = [com EXCEPT !.pc = "done", !.result = Build(com.builder)]
    /\ UNCHANGED <<resolverVars, hdr, dat, ndx, unt, log, rvp, cfg, pgr>>

NextBuilder ==
    \/ SetTree
    \/ SetParent
    \/ SetAuthor
    \/ SetCommitter
    \/ SetMessage
    \/ CallBuild

SpecBuilder == InitBuilder /\ [][NextBuilder]_vars

\* the mandatory fields in the order of the record
FieldOrder == <<"tree", "author", "committer", "message">>

Unset(b) == {i \in 1..Len(FieldOrder) : b[FieldOrder[i]] = None}

EarliestUnset(b) == FieldOrder[CHOOSE i \in Unset(b) : \A j \in Unset(b) : i <= j]

\* the text of MissingField(field)
MissingField(field) ==
    CASE field = "tree" -> CommitErr("MissingField tree")
      [] field = "author" -> CommitErr("MissingField author")
      [] field = "committer" -> CommitErr("MissingField committer")
      [] field = "message" -> CommitErr("MissingField message")

\* C26: build returns one MissingField error when a mandatory field is
\* unset, naming the earliest unset one in the order tree, author,
\* committer, message, and a Commit only when all four are set.
C26_BuildNamesEarliestMissingField ==
    com.pc = "done" =>
        IF Unset(com.builder) = {}
        THEN com.result.tag = "Commit"
        ELSE com.result = MissingField(EarliestUnset(com.builder))

(***************************************************************************)
(* Abbreviated hashes and branches of the same name.                       *)
(***************************************************************************)
\* C27: a lower-case hex spec of 4 to 39 characters is never looked up as a
\* branch: resolve does not read .git/refs/heads/<spec>, so when a branch
\* of that name exists and no object matches, the result is
\* InvalidRevision.
C27_HexSpecIsNeverABranch ==
    (called /\ Len(rev) \in 4..39 /\ AllIn(rev, Hex))
        => /\ FileRead(RefsHeads \o rev) \notin reads
           /\ (/\ (RefsHeads \o rev) \in DOMAIN fs.files
               /\ \A n \in FilesIn(fs, SubSeq(rev, 1, 2)) :
                    ~StartsWith(n, SubSeq(rev, 3, Len(rev))))
                => result = Invalid

\* the spec "cafe" has been resolved in a repository that has the branch
\* cafe and objects, none of which starts with "cafe"
C27_Witness ==
    /\ called
    /\ rev = Cafe
    /\ (RefsHeads \o Cafe) \in DOMAIN fs.files
    /\ DOMAIN fs.objects # {}
    /\ result = Invalid
    /\ reads = {DirRead(<<"c", "a">>)}

(***************************************************************************)
(* The pager (src/src/pager.rs).  A process has a table of descriptors,    *)
(* fds, from descriptor numbers to open files: the terminal ("in", "out",  *)
(* "err") and the two ends of the pipe ("r", "w").  setup runs in the      *)
(* parent up to fork and in both processes after it; a process that has    *)
(* returned from setup goes on with the command that called it, which      *)
(* writes to its standard output and exits.  The pager reads its standard  *)
(* input until end of file, which the pipe delivers when it is empty and   *)
(* no process holds its write end.                                         *)
(***************************************************************************)
\* the most lines the command writes
MaxOutput == 2

STDIN_FILENO == 0

STDOUT_FILENO == 1

\* the lowest descriptor numbers that are looked at
Descriptors == 0..6

NoProcess == [pc |-> "none", fds |-> <<>>, result |-> "None", written |-> 0]

\* close(fd): -1 when fd is not open
CloseOk(fds, fd) == fd \in DOMAIN fds

Close(fds, fd) == [d \in DOMAIN fds \ {fd} |-> fds[d]]

\* dup2(oldfd, newfd): -1 when oldfd is not open
Dup2Ok(fds, oldfd) == oldfd \in DOMAIN fds

Dup2(fds, oldfd, newfd) ==
    [d \in DOMAIN fds \cup {newfd} |-> IF d = newfd THEN fds[oldfd] ELSE fds[d]]

\* the lowest descriptor that is not open
LowestFree(fds) ==
    CHOOSE d \in Descriptors \ DOMAIN fds :
        \A e \in Descriptors \ DOMAIN fds : d <= e

\* pipe(pipe_fds) when it succeeds: the read end, then the write end
PipeFds(fds) ==
    LET r == LowestFree(fds)
        w == LowestFree(fds @@ (r :> "r"))
    IN  <<r, w>>

\* the descriptor tables a command can be started with: the usual one, and
\* with standard input or standard output closed
StartFds ==
    {(0 :> "in") @@ (1 :> "out") @@ (2 :> "err"),
     (1 :> "out") @@ (2 :> "err"),
     (0 :> "in") @@ (2 :> "err")}

InitPager ==
    /\ ResolverIdle
    /\ hdr = Idle /\ com = Idle /\ dat = Idle /\ ndx = Idle /\ unt = Idle
    /\ log = Idle /\ rvp = Idle /\ cfg = Idle
    /\ pgr \in {[pipe_fds |-> <<0, 0>>, forked |-> FALSE,
                 parent |-> [pc |-> "pipe", fds |-> fds, result |-> "None", written |-> 0],
                 child |-> NoProcess,
                 buffered |-> 0, eof |-> FALSE] : fds \in StartFds}

pager_stdin == pgr.pipe_fds[1]

main_stdout == pgr.pipe_fds[2]

PagerUnchanged == UNCHANGED <<resolverVars, hdr, com, dat, ndx, unt, log, rvp, cfg>>

\* libc::pipe, whose result is not looked at: when it fails, pipe_fds keeps
\* its zeros
Pipe ==
    /\ pgr.parent.pc = "pipe"
    /\ \E ok \in BOOLEAN :
        pgr' = IF ok
               THEN LET fd == PipeFds(pgr.parent.fds)
                    IN  [pgr EXCEPT !.pipe_fds = fd,
                                    !.parent.pc = "fork",
                                    !.parent.fds = @ @@ (fd[1] :> "r") @@ (fd[2] :> "w")]
               ELSE [pgr EXCEPT !.parent.pc = "fork"]
    /\ PagerUnchanged

\* libc::fork returns -1: both descriptors are closed, unchecked
ForkFails ==
    /\ pgr.parent.pc = "fork"
    /\ pgr' = [pgr EXCEPT !.parent.pc = "returned",
                          !.parent.result = "Err",
                          !.parent.fds = Close(Close(@, pager_stdin), main_stdout)]
    /\ PagerUnchanged

\* libc::fork succeeds: the child is a copy of the parent
Fork ==
    /\ pgr.parent.pc = "fork"
    /\ pgr' = [pgr EXCEPT !.forked = TRUE,
                          !.parent.pc = "dup2",
                          !.child = [pgr.parent EXCEPT !.pc = "dup2"]]
    /\ PagerUnchanged

\* the child: dup2(main_stdout, STDOUT_FILENO)
ChildDup2 ==
    /\ pgr.child.pc = "dup2"
    /\ pgr' = IF Dup2Ok(pgr.child.fds, main_stdout)
              THEN [pgr EXCEPT !.child.pc = "close",
                               !.child.fds = Dup2(@, main_stdout, STDOUT_FILENO)]
              ELSE [pgr EXCEPT !.child.pc = "returned", !.child.result = "Err"]
    /\ PagerUnchanged

\* the child: close(pager_stdin), and Ok(())
ChildClose ==
    /\ pgr.child.pc = "close"
    /\ pgr' = IF CloseOk(pgr.child.fds, pager_stdin)
              THEN [pgr EXCEPT !.child.pc = "returned", !.child.result = "Ok",
                               !.child.fds = Close(@, pager_stdin)]
              ELSE [pgr EXCEPT !.child.pc = "returned", !.child.result = "Err"]
    /\ PagerUnchanged

\* the parent: dup2(pager_stdin, STDIN_FILENO)
ParentDup2 ==
    /\ pgr.parent.pc = "dup2"
    /\ pgr' = IF Dup2Ok(pgr.parent.fds, pager_stdin)
              THEN [pgr EXCEPT !.parent.pc = "close",
                               !.parent.fds = Dup2(@, pager_stdin, STDIN_FILENO)]
              ELSE [pgr EXCEPT !.parent.pc = "returned", !.parent.result = "Err"]
    /\ PagerUnchanged

\* the parent: close(main_stdout)
ParentClose ==
    /\ pgr.parent.pc = "close"
    /\ pgr' = IF CloseOk(pgr.parent.fds, main_stdout)
              THEN [pgr EXCEPT !.parent.pc = "exec", !.parent.fds = Close(@, main_stdout)]
              ELSE [pgr EXCEPT !.parent.pc = "returned", !.parent.result = "Err"]
    /\ PagerUnchanged

\* the parent: execvp of the pager.  When it succeeds the process is the
\* pager from here on; when it fails (no such program) it returns, its
\* result is not looked at, and setup returns Ok(())
Execvp ==
    /\ pgr.parent.pc = "exec"
    /\ \E ok \in BOOLEAN :
        pgr' = IF ok
               THEN [pgr EXCEPT !.parent.pc = "pager"]
               ELSE [pgr EXCEPT !.parent.pc = "returned", !.parent.result = "Ok"]
    /\ PagerUnchanged

\* a process that returned from setup prints a line of the command's output
Write(p) ==
    /\ pgr[p].pc = "returned"
    /\ pgr[p].written < MaxOutput
    /\ pgr' = [pgr EXCEPT ![p].written = @ + 1,
                          !.buffered = IF STDOUT_FILENO \in DOMAIN pgr[p].fds
                                          /\ pgr[p].fds[STDOUT_FILENO] = "w"
                                       THEN @ + 1 ELSE @]
    /\ PagerUnchanged

\* a process that returned from setup ends: its descriptors are closed
Exit(p) ==
    /\ pgr[p].pc = "returned"
    /\ pgr' = [pgr EXCEPT ![p].pc = "exited", ![p].fds = <<>>]
    /\ PagerUnchanged

\* the processes that hold the write end of the pipe
Writers ==
    {p \in {"parent", "child"} : \E d \in DOMAIN pgr[p].fds : pgr[p].fds[d] = "w"}

\* the pager reads its standard input: a line, or end of file when the pipe
\* is empty and nobody holds its write end; otherwise it waits
PagerRead ==
    /\ pgr.parent.pc = "pager"
    /\ ~pgr.eof
    /\ STDIN_FILENO \in DOMAIN pgr.parent.fds
    /\ pgr.parent.fds[STDIN_FILENO] = "r"
    /\ \/ /\ pgr.buffered > 0
          /\ pgr' = [pgr EXCEPT !.buffered = @ - 1]
       \/ /\ pgr.buffered = 0
          /\ Writers = {}
          /\ pgr' = [pgr EXCEPT !.eof = TRUE]
    /\ PagerUnchanged

\* the pager ends after end of file
PagerExit ==
    /\ pgr.parent.pc = "pager"
    /\ pgr.eof
    /\ pgr' = [pgr EXCEPT !.parent.pc = "exited", !.parent.fds = <<>>]
    /\ PagerUnchanged

NextPager ==
    \/ Pipe
    \/ ForkFails
    \/ Fork
    \/ ChildDup2
    \/ ChildClose
    \/ ParentDup2
    \/ ParentClose
    \/ Execvp
    \/ Write("parent")
    \/ Write("child")
    \/ Exit("parent")
    \/ Exit("child")
    \/ PagerRead
    \/ PagerExit

SpecPager == InitPager /\ [][NextPager]_vars

\* the process holds file at descriptor fd
Holds(p, fd, file) == fd \in DOMAIN pgr[p].fds /\ pgr[p].fds[fd] = file

\* the process holds no descriptor of file
HoldsNone(p, file) == \A d \in DOMAIN pgr[p].fds : pgr[p].fds[d] # file

\* C28: after a successful fork exactly one of the two processes goes on
\* with the calling command: the child returns Ok with its standard output
\* the write end of the pipe and the read end closed; the parent has the
\* read end as standard input, has closed the write end, is replaced by the
\* pager and never returns; once the child has exited nobody holds the
\* write end, so the pager sees end of file.
C28_OnlyTheChildGoesOn ==
    pgr.forked =>
        /\ pgr.parent.pc # "returned"
        /\ pgr.child.pc = "returned" =>
                /\ pgr.child.result = "Ok"
                /\ Holds("child", STDOUT_FILENO, "w")
                /\ HoldsNone("child", "r")
        /\ pgr.parent.pc = "pager" =>
                /\ Holds("parent", STDIN_FILENO, "r")
                /\ HoldsNone("parent", "w")
        /\ (pgr.parent.pc = "pager" /\ pgr.child.pc = "exited") => Writers = {}

=============================================================================
